---- MODULE Spec2Model ----
(***************************************************************************)
(* Storage and query core of the edict ECS: archetype tables with          *)
(* per-column / per-chunk / per-row epoch versions (archetype.rs), the     *)
(* bundle validity check (bundle.rs) and the query protocol with its       *)
(* iterators (query/*.rs).                                                  *)
(*                                                                         *)
(* Rows, chunks and capacities are 0-based as in the source; arrays are    *)
(* functions over 0..n-1.  The entity vector is a sequence, so row r is    *)
(* entities[r + 1].                                                        *)
(***************************************************************************)
EXTENDS Integers, Sequences, FiniteSets, TLC

VARIABLES
    archetypes,  \* the World's slice of Archetype values
    alive,       \* alive[a]: archetype a has not been destroyed (Drop) yet
    epoch,       \* the largest world epoch handed to an operation so far
    debug,       \* cfg(debug_assertions) of the build
    deposited,   \* component values ever moved into an archetype
    dropped,     \* dropped[v]: how many times value v's destructor ran
    returned,    \* returned[v]: how many times v was handed back by value
    last,        \* the last operation, its arguments and what it returned
    failed,      \* the debug assertion that fired ("none" when none did)
    bundle_ids,  \* the component type ids of a tuple bundle, in tuple order
    sv_ids,      \* static_valid: the slice `ids` still to be checked
    sv_ret,      \* static_valid: "running", or what it returned
    qa, qb,      \* two query types
    q_valid,     \* what qa::is_valid() returned ("unset" before the call)
    q_allowed,   \* what qa::allowed_with::<qb>() returned
    it,          \* the query iterator being driven
    m_set,       \* matches: the archetype's component set
    m_ids,       \* matches: the ids the iterator `type_ids` hands out
    m_hint,      \* matches: what type_ids.size_hint() returns
    m_ret        \* matches: "unset", or what it returned

archVars == <<archetypes, alive, epoch, debug, deposited, dropped, returned, last, failed>>
bundleVars == <<bundle_ids, sv_ids, sv_ret>>
queryVars == <<qa, qb, q_valid, q_allowed>>
matchVars == <<m_set, m_ids, m_hint, m_ret>>
vars == <<archVars, bundleVars, queryVars, it, matchVars>>

----------------------------------------------------------------------------
(* Bounds of the model *)

\* epochs handed out by the world are 1..MaxEpoch
MaxEpoch == 3
\* entity ids are 1..MaxEntities
MaxEntities == 3
\* so no archetype holds more than MaxLen rows
MaxLen == MaxEntities

\* archetype.rs:907 has 0x100; the model keeps the chunk arithmetic and
\* scales the chunk length so that archetypes of MaxLen rows span two chunks.
CHUNK_LEN_USIZE == 2

EntityIds == 1..MaxEntities
Epochs == 1..MaxEpoch

\* Component types and the component sets of the World's archetypes:
\* archetype 1 holds (Pos), archetype 2 holds (Pos, Vel).
Types == {"Pos", "Vel"}
ArchSets == << {"Pos"}, {"Pos", "Vel"} >>
ArchIds == DOMAIN ArchSets

----------------------------------------------------------------------------
(* Option<u32>, component values *)

None == [some |-> FALSE, v |-> 0]
Some(x) == [some |-> TRUE, v |-> x]

\* A component value: the entity it was made for and the epoch of the
\* operation that deposited it (one value per type and operation).
Value(e, ep) == [owner |-> e, stamp |-> ep]
\* bytes of an allocation that were never written
Uninit == [owner |-> 0, stamp |-> 0]

\* identity of a deposited value, for destructor accounting
Token(t, v) == <<t, v.stamp>>
Tokens == Types \X (0..MaxEpoch)

Max(a, b) == IF a < b THEN b ELSE a

\* EntityId.idx (the id's slot in the World's entity table)
EntityIdx(e) == e

----------------------------------------------------------------------------
(* archetype.rs: chunk arithmetic *)

chunk_idx(idx) == idx \div CHUNK_LEN_USIZE

chunks_count(entities) == entities + ((CHUNK_LEN_USIZE - 1) \div CHUNK_LEN_USIZE)

first_of_chunk(idx) ==
    IF idx % CHUNK_LEN_USIZE = 0 THEN Some(chunk_idx(idx)) ELSE None

----------------------------------------------------------------------------
(* archetype.rs: ComponentData *)

ComponentData_new ==
    [ptr |-> [i \in {} |-> Uninit],
     version |-> 0,
     entity_versions |-> [i \in {} |-> 0],
     chunk_versions |-> [i \in {} |-> 0]]

\* a grow whose zeroed entity_versions array never receives the old versions
grow_DropsRowVersions(c, len, old_cap, new_cap) ==
    [ptr |-> [i \in 0..(new_cap - 1) |-> IF i < len THEN c.ptr[i] ELSE Uninit],
     version |-> c.version,
     entity_versions |-> [i \in 0..(new_cap - 1) |-> 0],
     chunk_versions |->
        IF chunks_count(new_cap) > chunks_count(old_cap)
        THEN [i \in 0..(chunks_count(new_cap) - 1) |->
                 IF i < len THEN c.chunk_versions[i] ELSE 0]
        ELSE c.chunk_versions]

\* a grow whose new chunk_versions array is left zeroed
grow_ZeroesChunks(c, len, old_cap, new_cap) ==
    [ptr |-> [i \in 0..(new_cap - 1) |-> IF i < len THEN c.ptr[i] ELSE Uninit],
     version |-> c.version,
     entity_versions |->
        [i \in 0..(new_cap - 1) |-> IF i < len THEN c.entity_versions[i] ELSE 0],
     chunk_versions |->
        IF chunks_count(new_cap) > chunks_count(old_cap)
        THEN [i \in 0..(chunks_count(new_cap) - 1) |-> 0]
        ELSE c.chunk_versions]

\* ComponentData::grow: new value and entity_versions arrays of new_cap slots
\* holding the first len old elements (alloc / alloc_zeroed), and, when
\* chunks_count grows, a zeroed chunk_versions array that receives the first
\* len old chunk versions.
grow(c, len, old_cap, new_cap) ==
    [ptr |-> [i \in 0..(new_cap - 1) |-> IF i < len THEN c.ptr[i] ELSE Uninit],
     version |-> c.version,
     entity_versions |->
        [i \in 0..(new_cap - 1) |-> IF i < len THEN c.entity_versions[i] ELSE 0],
     chunk_versions |->
        IF chunks_count(new_cap) > chunks_count(old_cap)
        THEN [i \in 0..(chunks_count(new_cap) - 1) |->
                 IF i < len THEN c.chunk_versions[i] ELSE 0]
        ELSE c.chunk_versions]

----------------------------------------------------------------------------
(* archetype.rs: Archetype *)

Archetype_new(set) ==
    [set |-> set,
     entities |-> << >>,
     cap |-> 0,
     components |-> [t \in set |-> ComponentData_new]]

ArchLen(a) == Len(a.entities)

\* Vec::reserve on the entity vector: amortised doubling.
VecReserveCap(cap, len, additional) ==
    IF cap - len >= additional THEN cap ELSE Max(2 * cap, len + additional)

\* Archetype::reserve
reserve(a, additional) ==
    LET cap == a.cap
        new_cap == VecReserveCap(cap, ArchLen(a), additional)
    IN  IF cap # new_cap
        THEN [a EXCEPT !.cap = new_cap,
                       !.components =
                           [t \in a.set |-> grow(a.components[t], ArchLen(a), cap, new_cap)]]
        ELSE a

\* Vec::remove in place of Vec::swap_remove: the rows above idx shift down
SwapRemove_Shift(s, idx) ==
    [i \in 1..(Len(s) - 1) |-> IF i < idx + 1 THEN s[i] ELSE s[i + 1]]

\* Vec::swap_remove on the entity vector
SwapRemove(s, idx) ==
    LET n == Len(s)
    IN  [i \in 1..(n - 1) |-> IF i = idx + 1 THEN s[n] ELSE s[i]]

\* stamps that reach the chunk and the row and leave the column's version
StampColumn_KeepsVersion(c, entity_idx, ep) ==
    [c EXCEPT !.chunk_versions[chunk_idx(entity_idx)] = ep,
              !.entity_versions[entity_idx] = ep]

\* the version stamps of write_bundle / write_one on one column
StampColumn(c, entity_idx, ep) ==
    [c EXCEPT !.version = ep,
              !.chunk_versions[chunk_idx(entity_idx)] = ep,
              !.entity_versions[entity_idx] = ep]

\* the three debug assertions of write_bundle / write_one on one column
WriteAssertsHold(c, entity_idx, ep) ==
    /\ c.version <= ep
    /\ c.chunk_versions[chunk_idx(entity_idx)] <= ep
    /\ c.entity_versions[entity_idx] <= ep

\* a write_bundle that stamps the row in every column of the archetype
write_bundle_StampsEveryColumn(a, entity_idx, bundle, ep) ==
    [a EXCEPT !.components =
        [t \in a.set |->
            IF t \in DOMAIN bundle
            THEN [StampColumn(a.components[t], entity_idx, ep)
                     EXCEPT !.ptr[entity_idx] = bundle[t]]
            ELSE StampColumn(a.components[t], entity_idx, ep)]]

\* a write_bundle that stamps the column but leaves a value the row already
\* holds in place
write_bundle_KeepsHeld(a, entity_idx, bundle, ep) ==
    [a EXCEPT !.components =
        [t \in a.set |->
            IF t \in DOMAIN bundle
            THEN [StampColumn(a.components[t], entity_idx, ep)
                     EXCEPT !.ptr[entity_idx] =
                        IF @ = Uninit THEN bundle[t] ELSE @]
            ELSE a.components[t]]]

\* Archetype::write_bundle: bundle is a function from its component types to
\* the values it carries; put() visits every component once.
write_bundle(a, entity_idx, bundle, ep) ==
    [a EXCEPT !.components =
        [t \in a.set |->
            IF t \in DOMAIN bundle
            THEN [StampColumn(a.components[t], entity_idx, ep)
                     EXCEPT !.ptr[entity_idx] = bundle[t]]
            ELSE a.components[t]]]

\* a write_one that indexes entity_versions with the chunk index
write_one_StampsChunkSlot(a, entity_idx, t, value, ep) ==
    [a EXCEPT !.components[t] =
        [a.components[t] EXCEPT !.version = ep,
                                !.chunk_versions[chunk_idx(entity_idx)] = ep,
                                !.entity_versions[chunk_idx(entity_idx)] = ep,
                                !.ptr[entity_idx] = value]]

\* Archetype::write_one
write_one(a, entity_idx, t, value, ep) ==
    [a EXCEPT !.components[t] =
        [StampColumn(a.components[t], entity_idx, ep)
            EXCEPT !.ptr[entity_idx] = value]]

\* a swap-remove that moves the bytes and the row version but leaves the
\* chunk version of row idx as it was
SwapRemoveColumn_KeepsChunk(c, idx, last_idx, dbg) ==
    LET last_epoch == c.entity_versions[last_idx]
        moved ==
            IF idx # last_idx
            THEN [c EXCEPT !.entity_versions[idx] = last_epoch,
                           !.ptr[idx] = c.ptr[last_idx],
                           !.ptr[last_idx] = Uninit]
            ELSE [c EXCEPT !.ptr[last_idx] = Uninit]
    IN  IF dbg THEN [moved EXCEPT !.entity_versions[last_idx] = 0] ELSE moved

\* a swap-remove that moves the bytes but leaves the row version of the
\* removed row in place
SwapRemoveColumn_KeepsRowVersion(c, idx, last_idx, dbg) ==
    LET last_epoch == c.entity_versions[last_idx]
        moved ==
            IF idx # last_idx
            THEN [c EXCEPT !.chunk_versions[chunk_idx(idx)] = Max(@, last_epoch),
                           !.ptr[idx] = c.ptr[last_idx],
                           !.ptr[last_idx] = Uninit]
            ELSE [c EXCEPT !.ptr[last_idx] = Uninit]
    IN  IF dbg THEN [moved EXCEPT !.entity_versions[last_idx] = 0] ELSE moved

\* a swap-remove that raises the chunk version of the last row's chunk
\* instead of the chunk the row is moved into
SwapRemoveColumn_RaisesLastChunk(c, idx, last_idx, dbg) ==
    LET last_epoch == c.entity_versions[last_idx]
        moved ==
            IF idx # last_idx
            THEN [c EXCEPT !.chunk_versions[chunk_idx(last_idx)] = Max(@, last_epoch),
                           !.entity_versions[idx] = last_epoch,
                           !.ptr[idx] = c.ptr[last_idx],
                           !.ptr[last_idx] = Uninit]
            ELSE [c EXCEPT !.ptr[last_idx] = Uninit]
    IN  IF dbg THEN [moved EXCEPT !.entity_versions[last_idx] = 0] ELSE moved

\* a swap-remove that counts the removal as a change of the chunk of row idx
\* and raises that chunk's version to the column's
SwapRemoveColumn_StampsChunk(c, idx, last_idx, dbg) ==
    LET last_epoch == c.entity_versions[last_idx]
        moved ==
            IF idx # last_idx
            THEN [c EXCEPT !.chunk_versions[chunk_idx(idx)] = c.version,
                           !.entity_versions[idx] = last_epoch,
                           !.ptr[idx] = c.ptr[last_idx],
                           !.ptr[last_idx] = Uninit]
            ELSE [c EXCEPT !.chunk_versions[chunk_idx(idx)] = c.version,
                           !.ptr[last_idx] = Uninit]
    IN  IF dbg THEN [moved EXCEPT !.entity_versions[last_idx] = 0] ELSE moved

\* the swap-remove half of despawn_unchecked / relocate_components on one
\* column: the last row's version and bytes replace row idx, and a debug
\* build zeroes the vacated slot's entity_version.  The value of the last
\* slot has been moved out of it (or dropped, when idx is the last row): the
\* slot no longer holds a value.
SwapRemoveColumn(c, idx, last_idx, dbg) ==
    LET last_epoch == c.entity_versions[last_idx]
        moved ==
            IF idx # last_idx
            THEN [c EXCEPT !.chunk_versions[chunk_idx(idx)] = Max(@, last_epoch),
                           !.entity_versions[idx] = last_epoch,
                           !.ptr[idx] = c.ptr[last_idx],
                           !.ptr[last_idx] = Uninit]
            ELSE [c EXCEPT !.ptr[last_idx] = Uninit]
    IN  IF dbg THEN [moved EXCEPT !.entity_versions[last_idx] = 0] ELSE moved

\* a despawn_unchecked that gives the freed capacity back to the allocator
despawn_unchecked_ShrinksToFit(a, idx, dbg) ==
    LET last_idx == ArchLen(a) - 1
    IN  [a EXCEPT !.components =
                      [t \in a.set |->
                          grow(SwapRemoveColumn(a.components[t], idx, last_idx, dbg),
                               last_idx, a.cap, last_idx)],
                  !.cap = last_idx,
                  !.entities = SwapRemove(a.entities, idx)]

\* Archetype::despawn_unchecked, the archetype after the call
despawn_unchecked(a, idx, dbg) ==
    LET last_idx == ArchLen(a) - 1
    IN  [a EXCEPT !.components =
                      [t \in a.set |-> SwapRemoveColumn(a.components[t], idx, last_idx, dbg)],
                  !.entities = SwapRemove(a.entities, idx)]

\* a hint that names the row the moved entity came from
MovedHint_FormerRow(a_after, idx, last_idx) ==
    IF idx # last_idx THEN Some(last_idx) ELSE None

\* what despawn_unchecked and the migrations return as "moved" entity
MovedHint(a_after, idx, last_idx) ==
    IF idx # last_idx THEN Some(EntityIdx(a_after.entities[idx + 1])) ELSE None

\* a relocation that stamps the destination row with the destination
\* column's version when that is newer
RelocateInto_Restamps(dc, sc, src_idx, dst_idx) ==
    LET e == Max(dc.version, sc.entity_versions[src_idx])
    IN  [dc EXCEPT !.version = Max(@, e),
                   !.chunk_versions[chunk_idx(dst_idx)] = Max(@, e),
                   !.entity_versions[dst_idx] = e,
                   !.ptr[dst_idx] = sc.ptr[src_idx]]

\* relocate_components, destination side, for one destination column
RelocateInto(dc, sc, src_idx, dst_idx) ==
    LET e == sc.entity_versions[src_idx]
    IN  [dc EXCEPT !.version = Max(@, e),
                   !.chunk_versions[chunk_idx(dst_idx)] = Max(@, e),
                   !.entity_versions[dst_idx] = e,
                   !.ptr[dst_idx] = sc.ptr[src_idx]]

\* a relocation that moves the values and leaves the versions behind
relocate_components_ValuesOnly(src, src_idx, dst, dst_idx, dbg) ==
    LET last_idx == ArchLen(src) - 1
    IN  << [src EXCEPT !.components =
                [t \in src.set |-> SwapRemoveColumn(src.components[t], src_idx, last_idx, dbg)]],
           [dst EXCEPT !.components =
                [t \in dst.set |->
                    IF t \in src.set
                    THEN [dst.components[t] EXCEPT !.ptr[dst_idx] = src.components[t].ptr[src_idx]]
                    ELSE dst.components[t]]] >>

\* relocate_components: <<source after, destination after>>.  Columns the
\* destination lacks go to the caller's `missing` handler (see the callers).
relocate_components(src, src_idx, dst, dst_idx, dbg) ==
    LET last_idx == ArchLen(src) - 1
    IN  << [src EXCEPT !.components =
                [t \in src.set |-> SwapRemoveColumn(src.components[t], src_idx, last_idx, dbg)]],
           [dst EXCEPT !.components =
                [t \in dst.set |->
                    IF t \in src.set
                    THEN RelocateInto(dst.components[t], src.components[t], src_idx, dst_idx)
                    ELSE dst.components[t]]] >>

\* debug_assert_eq!(*dst_entity_version, 0) of relocate_components
RelocateAssertsHold(src, dst, dst_idx) ==
    \A t \in src.set \cap dst.set : dst.components[t].entity_versions[dst_idx] = 0

\* a tail that pushes the entity on the destination and leaves the source's
\* entity vector as it was
MoveEntity_KeepsSource(src_after, src_before, src_idx, dst_after) ==
    << src_after,
       [dst_after EXCEPT !.entities = Append(@, src_before.entities[src_idx + 1])] >>

\* the tail shared by insert_bundle, insert, remove and drop_bundle:
\* swap_remove the entity from the source, push it on the destination
MoveEntity(src_after, src_before, src_idx, dst_after) ==
    << [src_after EXCEPT !.entities = SwapRemove(src_before.entities, src_idx)],
       [dst_after EXCEPT !.entities = Append(@, src_before.entities[src_idx + 1])] >>

----------------------------------------------------------------------------
(* Destructor accounting *)

\* the destructor runs once on every element of S, a set of
\* <<type, row, value>> places
DropAll(d, S) ==
    [k \in Tokens |-> d[k] + Cardinality({p \in S : Token(p[1], p[3]) = k})]

\* the value at <<type, row>> is handed to the caller by value
ReturnOne(r, t, v) == [r EXCEPT ![Token(t, v)] = @ + 1]

\* rows of archetypes that still exist and hold the value with token k
LiveCopies(k) ==
    Cardinality({p \in ArchIds \X (0..MaxLen) :
        /\ alive[p[1]]
        /\ k[1] \in archetypes[p[1]].set
        /\ p[2] < ArchLen(archetypes[p[1]])
        /\ Token(k[1], archetypes[p[1]].components[k[1]].ptr[p[2]]) = k})

Range(s) == {s[i] : i \in DOMAIN s}

LiveEntities == UNION {Range(archetypes[a].entities) : a \in ArchIds}

\* the external allocator hands out the smallest id that is not in use
FreshEntity ==
    IF LiveEntities = EntityIds THEN 0
    ELSE CHOOSE e \in EntityIds \ LiveEntities :
             \A f \in EntityIds \ LiveEntities : e <= f

----------------------------------------------------------------------------
(* The operations of the World on its archetypes *)

\* the value and entity_version an entity has in every column of its row
RowImage(a, idx) ==
    [t \in a.set |-> [value |-> a.components[t].ptr[idx],
                      version |-> a.components[t].entity_versions[idx]]]

NoImage == [t \in {} |-> [value |-> Uninit, version |-> 0]]

\* written: the component types the operation deposited a value for;
\* image: what the entity held in the source before an insertion moved it;
\* undoes: the operation takes back the row the operation before it made
Op(name, src, dst, row, ep, written, dst_row, moved, value, image, undoes) ==
    [op |-> name, src |-> src, dst |-> dst, row |-> row, epoch |-> ep,
     written |-> written, dst_row |-> dst_row, moved |-> moved, value |-> value,
     image |-> image, undoes |-> undoes]

\* the operation before this one was `name`, and the row it made in
\* archetype s, coming from archetype d, is row src_idx
Undoes(name, s, d, src_idx) ==
    /\ last.op = name
    /\ last.dst = s
    /\ last.src = d
    /\ last.dst_row = src_idx

Running == failed = "none" /\ it.kind = "none" /\ \A a \in ArchIds : alive[a]

\* a debug assertion fired: the operation panics
Panic(name) ==
    /\ failed' = name
    /\ UNCHANGED <<archetypes, alive, epoch, debug, deposited, dropped, returned, last>>
    /\ UNCHANGED <<bundleVars, queryVars, it, matchVars>>

\* Archetype::spawn(entity, bundle, epoch)
Spawn(a, e) ==
    /\ Running
    /\ epoch < MaxEpoch
    /\ ArchLen(archetypes[a]) < MaxLen
    /\ e = FreshEntity
    /\ LET ep == epoch + 1
           entity_idx == ArchLen(archetypes[a])
           bundle == [t \in archetypes[a].set |-> Value(e, ep)]
           reserved == reserve(archetypes[a], 1)
           written == write_bundle(reserved, entity_idx, bundle, ep)
       IN  IF debug /\ \E t \in DOMAIN bundle :
                          ~WriteAssertsHold(reserved.components[t], entity_idx, ep)
           THEN Panic("write_bundle")
           ELSE /\ archetypes' = [archetypes EXCEPT ![a] =
                                    [written EXCEPT !.entities = Append(@, e)]]
                /\ epoch' = ep
                /\ deposited' = deposited \cup {<<t, ep>> : t \in DOMAIN bundle}
                /\ last' = Op("spawn", a, a, entity_idx, ep, DOMAIN bundle, entity_idx, None, Uninit, NoImage, FALSE)
                /\ UNCHANGED <<alive, debug, dropped, returned, failed, bundleVars, queryVars, it, matchVars>>

\* Archetype::despawn(idx)
Despawn(a, idx) ==
    /\ Running
    /\ idx < ArchLen(archetypes[a])
    /\ LET arch == archetypes[a]
           last_idx == ArchLen(arch) - 1
           after == despawn_unchecked(arch, idx, debug)
       IN  /\ archetypes' = [archetypes EXCEPT ![a] = after]
           /\ dropped' = DropAll(dropped,
                                 {<<t, idx, arch.components[t].ptr[idx]>> : t \in arch.set})
           /\ last' = Op("despawn", a, a, idx, 0, {}, idx, MovedHint(after, idx, last_idx), Uninit, NoImage, Undoes("spawn", a, a, idx))
           /\ UNCHANGED <<alive, epoch, debug, deposited, returned, failed, bundleVars, queryVars, it, matchVars>>

\* Archetype::set_bundle(idx, bundle, epoch); set_one drops the old value
SetBundle(a, idx, B) ==
    /\ Running
    /\ epoch < MaxEpoch
    /\ idx < ArchLen(archetypes[a])
    /\ B \subseteq archetypes[a].set
    /\ LET ep == epoch + 1
           arch == archetypes[a]
           bundle == [t \in B |-> Value(arch.entities[idx + 1], ep)]
       IN  IF debug /\ \E t \in B : ~WriteAssertsHold(arch.components[t], idx, ep)
           THEN Panic("write_bundle")
           ELSE /\ archetypes' = [archetypes EXCEPT ![a] = write_bundle(arch, idx, bundle, ep)]
                /\ epoch' = ep
                /\ deposited' = deposited \cup {<<t, ep>> : t \in B}
                /\ dropped' = DropAll(dropped,
                                      {<<t, idx, arch.components[t].ptr[idx]>> : t \in B})
                /\ last' = Op("set_bundle", a, a, idx, ep, B, idx, None, Uninit, NoImage, FALSE)
                /\ UNCHANGED <<alive, debug, returned, failed, bundleVars, queryVars, it, matchVars>>

\* Archetype::set<T>(idx, value, epoch); the assignment drops the old value
Set(a, idx, t) ==
    /\ Running
    /\ epoch < MaxEpoch
    /\ idx < ArchLen(archetypes[a])
    /\ t \in archetypes[a].set
    /\ LET ep == epoch + 1
           arch == archetypes[a]
           value == Value(arch.entities[idx + 1], ep)
       IN  IF debug /\ ~WriteAssertsHold(arch.components[t], idx, ep)
           THEN Panic("write_one")
           ELSE /\ archetypes' = [archetypes EXCEPT ![a] = write_one(arch, idx, t, value, ep)]
                /\ epoch' = ep
                /\ deposited' = deposited \cup {<<t, ep>>}
                /\ dropped' = DropAll(dropped, {<<t, idx, arch.components[t].ptr[idx]>>})
                /\ last' = Op("set", a, a, idx, ep, {t}, idx, None, Uninit, NoImage, FALSE)
                /\ UNCHANGED <<alive, debug, returned, failed, bundleVars, queryVars, it, matchVars>>

\* an `occupied` closure that takes every destination slot for vacant
insert_bundle_occupied_Never(src, id) == FALSE

\* the `occupied` closure insert_bundle hands to write_bundle: the source
\* already had a component of that type
insert_bundle_occupied(src, id) == id \in src.set

\* Archetype::insert_bundle(dst, src_idx, bundle, epoch); where occupied(id)
\* holds, write_bundle's set_one drops the relocated value.
InsertBundle(s, d, src_idx, B) ==
    /\ Running
    /\ epoch < MaxEpoch
    /\ s # d
    /\ src_idx < ArchLen(archetypes[s])
    /\ ArchLen(archetypes[d]) < MaxLen
    /\ archetypes[s].set \subseteq archetypes[d].set
    /\ B \subseteq archetypes[d].set
    /\ B \ archetypes[s].set # {}
    /\ Cardinality(B \ archetypes[s].set) + Cardinality(archetypes[s].set)
          = Cardinality(archetypes[d].set)
    /\ LET ep == epoch + 1
           src == archetypes[s]
           dst_idx == ArchLen(archetypes[d])
           reserved == reserve(archetypes[d], 1)
           rel == relocate_components(src, src_idx, reserved, dst_idx, debug)
           bundle == [t \in B |-> Value(src.entities[src_idx + 1], ep)]
           written == write_bundle(rel[2], dst_idx, bundle, ep)
           moved == MoveEntity(rel[1], src, src_idx, written)
       IN  IF debug /\ ~RelocateAssertsHold(src, reserved, dst_idx)
           THEN Panic("relocate_components")
           ELSE IF debug /\ \E t \in B : ~WriteAssertsHold(rel[2].components[t], dst_idx, ep)
           THEN Panic("write_bundle")
           ELSE /\ archetypes' = [archetypes EXCEPT ![s] = moved[1], ![d] = moved[2]]
                /\ epoch' = ep
                /\ deposited' = deposited \cup {<<t, ep>> : t \in B}
                /\ dropped' = DropAll(dropped,
                        {<<t, dst_idx, rel[2].components[t].ptr[dst_idx]>> :
                            t \in {u \in B : insert_bundle_occupied(src, u)}})
                /\ last' = Op("insert_bundle", s, d, src_idx, ep, B, dst_idx,
                              MovedHint(moved[1], src_idx, ArchLen(src) - 1), Uninit, RowImage(src, src_idx), FALSE)
                /\ UNCHANGED <<alive, debug, returned, failed, bundleVars, queryVars, it, matchVars>>

\* Archetype::insert<T>(dst, src_idx, value, epoch)
Insert(s, d, src_idx, t) ==
    /\ Running
    /\ epoch < MaxEpoch
    /\ s # d
    /\ src_idx < ArchLen(archetypes[s])
    /\ ArchLen(archetypes[d]) < MaxLen
    /\ t \notin archetypes[s].set
    /\ archetypes[d].set = archetypes[s].set \cup {t}
    /\ LET ep == epoch + 1
           src == archetypes[s]
           dst_idx == ArchLen(archetypes[d])
           reserved == reserve(archetypes[d], 1)
           rel == relocate_components(src, src_idx, reserved, dst_idx, debug)
           value == Value(src.entities[src_idx + 1], ep)
           written == write_one(rel[2], dst_idx, t, value, ep)
           moved == MoveEntity(rel[1], src, src_idx, written)
       IN  IF debug /\ ~RelocateAssertsHold(src, reserved, dst_idx)
           THEN Panic("relocate_components")
           ELSE IF debug /\ ~WriteAssertsHold(rel[2].components[t], dst_idx, ep)
           THEN Panic("write_one")
           ELSE /\ archetypes' = [archetypes EXCEPT ![s] = moved[1], ![d] = moved[2]]
                /\ epoch' = ep
                /\ deposited' = deposited \cup {<<t, ep>>}
                /\ last' = Op("insert", s, d, src_idx, ep, {t}, dst_idx,
                              MovedHint(moved[1], src_idx, ArchLen(src) - 1), Uninit, RowImage(src, src_idx), FALSE)
                /\ UNCHANGED <<alive, debug, dropped, returned, failed, bundleVars, queryVars, it, matchVars>>

\* Archetype::remove<T>(dst, src_idx): the missing handler copies the one
\* column the destination lacks out to the caller
Remove(s, d, src_idx, t) ==
    /\ Running
    /\ s # d
    /\ src_idx < ArchLen(archetypes[s])
    /\ ArchLen(archetypes[d]) < MaxLen
    /\ t \in archetypes[s].set
    /\ archetypes[d].set = archetypes[s].set \ {t}
    /\ LET src == archetypes[s]
           dst_idx == ArchLen(archetypes[d])
           reserved == reserve(archetypes[d], 1)
           rel == relocate_components(src, src_idx, reserved, dst_idx, debug)
           value == src.components[t].ptr[src_idx]
           moved == MoveEntity(rel[1], src, src_idx, rel[2])
       IN  IF debug /\ ~RelocateAssertsHold(src, reserved, dst_idx)
           THEN Panic("relocate_components")
           ELSE /\ archetypes' = [archetypes EXCEPT ![s] = moved[1], ![d] = moved[2]]
                /\ returned' = ReturnOne(returned, t, value)
                /\ last' = Op("remove", s, d, src_idx, 0, {}, dst_idx,
                              MovedHint(moved[1], src_idx, ArchLen(src) - 1), value, NoImage, Undoes("insert", s, d, src_idx))
                /\ UNCHANGED <<alive, epoch, debug, deposited, dropped, failed, bundleVars, queryVars, it, matchVars>>

\* Archetype::drop_bundle(dst, src_idx): the missing handler drops in place
DropBundle(s, d, src_idx) ==
    /\ Running
    /\ s # d
    /\ src_idx < ArchLen(archetypes[s])
    /\ ArchLen(archetypes[d]) < MaxLen
    /\ archetypes[d].set \subseteq archetypes[s].set
    /\ LET src == archetypes[s]
           dst_idx == ArchLen(archetypes[d])
           reserved == reserve(archetypes[d], 1)
           rel == relocate_components(src, src_idx, reserved, dst_idx, debug)
           moved == MoveEntity(rel[1], src, src_idx, rel[2])
       IN  IF debug /\ ~RelocateAssertsHold(src, reserved, dst_idx)
           THEN Panic("relocate_components")
           ELSE /\ archetypes' = [archetypes EXCEPT ![s] = moved[1], ![d] = moved[2]]
                /\ dropped' = DropAll(dropped,
                        {<<t, src_idx, src.components[t].ptr[src_idx]>> :
                            t \in src.set \ archetypes[d].set})
                /\ last' = Op("drop_bundle", s, d, src_idx, 0, {}, dst_idx,
                              MovedHint(moved[1], src_idx, ArchLen(src) - 1), Uninit, NoImage, Undoes("insert_bundle", s, d, src_idx))
                /\ UNCHANGED <<alive, epoch, debug, deposited, returned, failed, bundleVars, queryVars, it, matchVars>>

\* impl Drop for Archetype: drop(ptr, len) on every column
DropArchetype(a) ==
    /\ failed = "none"
    /\ alive[a]
    /\ LET arch == archetypes[a]
       IN  /\ alive' = [alive EXCEPT ![a] = FALSE]
           /\ dropped' = DropAll(dropped,
                   {<<t, i, arch.components[t].ptr[i]>> :
                       t \in arch.set, i \in 0..(ArchLen(arch) - 1)})
           /\ last' = Op("drop", a, a, 0, 0, {}, 0, None, Uninit, NoImage, FALSE)
           /\ UNCHANGED <<archetypes, epoch, debug, deposited, returned, failed, bundleVars, queryVars, it, matchVars>>

----------------------------------------------------------------------------
(* Idle values of the parts a specification does not drive *)

ArchIdle ==
    /\ archetypes = [a \in ArchIds |-> Archetype_new(ArchSets[a])]
    /\ alive = [a \in ArchIds |-> TRUE]
    /\ epoch = 0
    /\ debug = TRUE
    /\ deposited = {}
    /\ dropped = [k \in Tokens |-> 0]
    /\ returned = [k \in Tokens |-> 0]
    /\ last = Op("new", 1, 1, 0, 0, {}, 0, None, Uninit, NoImage, FALSE)
    /\ failed = "none"

BundleIdle ==
    /\ bundle_ids = << >>
    /\ sv_ids = << >>
    /\ sv_ret = "idle"

QueryIdle ==
    /\ qa = [k |-> "tuple", t |-> "-", elems |-> << >>]
    /\ qb = [k |-> "tuple", t |-> "-", elems |-> << >>]
    /\ q_valid = "unset"
    /\ q_allowed = "unset"

\* no iterator is borrowing the archetypes
NoIter ==
    [kind |-> "none", t |-> "-", tracks |-> 0, archetypes |-> 1, cur |-> 0,
     indices |-> [start |-> 0, end |-> 0], visit_chunk |-> FALSE,
     yielded |-> << >>, done |-> FALSE,
     q |-> [k |-> "tuple", t |-> "-", elems |-> << >>], epoch |-> 0,
     before |-> << >>, visits |-> << >>, derefs |-> {}, step |-> "none"]

IterIdle == it = NoIter

MatchIdle ==
    /\ m_set = {}
    /\ m_ids = << >>
    /\ m_hint = [lower |-> 0, upper |-> [some |-> FALSE, v |-> 0]]
    /\ m_ret = "unset"

----------------------------------------------------------------------------
(* The archetype operations under fresh, strictly increasing epochs *)

ArchInit ==
    /\ archetypes = [a \in ArchIds |-> Archetype_new(ArchSets[a])]
    /\ alive = [a \in ArchIds |-> TRUE]
    /\ epoch = 0
    /\ debug \in BOOLEAN
    /\ deposited = {}
    /\ dropped = [k \in Tokens |-> 0]
    /\ returned = [k \in Tokens |-> 0]
    /\ last = Op("new", 1, 1, 0, 0, {}, 0, None, Uninit, NoImage, FALSE)
    /\ failed = "none"
    /\ BundleIdle /\ QueryIdle /\ IterIdle /\ MatchIdle

ArchNext ==
    \/ \E a \in ArchIds, e \in EntityIds : Spawn(a, e)
    \/ \E a \in ArchIds, i \in 0..(MaxLen - 1) : Despawn(a, i)
    \/ \E a \in ArchIds, i \in 0..(MaxLen - 1), B \in SUBSET Types : SetBundle(a, i, B)
    \/ \E a \in ArchIds, i \in 0..(MaxLen - 1), t \in Types : Set(a, i, t)
    \/ \E s, d \in ArchIds, i \in 0..(MaxLen - 1), B \in SUBSET Types : InsertBundle(s, d, i, B)
    \/ \E s, d \in ArchIds, i \in 0..(MaxLen - 1), t \in Types : Insert(s, d, i, t)
    \/ \E s, d \in ArchIds, i \in 0..(MaxLen - 1), t \in Types : Remove(s, d, i, t)
    \/ \E s, d \in ArchIds, i \in 0..(MaxLen - 1) : DropBundle(s, d, i)

SpecArch == ArchInit /\ [][ArchNext]_vars

\* largest capacity a caller's reserve is followed up to
MaxCap == 2 * MaxLen

\* Archetype::reserve(additional), called on its own with an `additional`
\* the spare capacity does not cover
Reserve(a, additional) ==
    /\ Running
    /\ archetypes[a].cap - ArchLen(archetypes[a]) < additional
    /\ VecReserveCap(archetypes[a].cap, ArchLen(archetypes[a]), additional) <= MaxCap
    /\ LET reserved == reserve(archetypes[a], additional)
       IN  /\ archetypes' = [archetypes EXCEPT ![a] = reserved]
           /\ last' = Op("reserve", a, a, archetypes[a].cap, 0, {}, reserved.cap,
                         None, Uninit, NoImage, FALSE)
    /\ UNCHANGED <<alive, epoch, debug, deposited, dropped, returned, failed, bundleVars, queryVars, it, matchVars>>

ReserveNext ==
    \/ ArchNext
    \/ \E a \in ArchIds, additional \in 1..2 : Reserve(a, additional)

\* the archetype operations with reserve calls between them
SpecReserve == ArchInit /\ [][ReserveNext]_vars

\* the same, ending with the destruction of the archetypes
DropNext ==
    \/ ArchNext
    \/ \E a \in ArchIds : DropArchetype(a)

SpecDrop == ArchInit /\ [][DropNext]_vars

----------------------------------------------------------------------------
(* Properties of the archetype operations *)

Columns == {<<a, t>> \in ArchIds \X Types : t \in ArchSets[a]}
Col(a, t) == archetypes[a].components[t]
Rows(a) == 0..(ArchLen(archetypes[a]) - 1)
Migrations == {"insert", "insert_bundle", "remove", "drop_bundle"}

\* C1 (P1): after any sequence of archetype operations under strictly
\* increasing epochs, every in-use row i of every column has
\* entity_versions[i] <= chunk_versions[chunk_of(i)] <= column.version.
C1_ChunkDominates ==
    \A p \in Columns : \A i \in Rows(p[1]) :
        /\ Col(p[1], p[2]).entity_versions[i]
              <= Col(p[1], p[2]).chunk_versions[chunk_idx(i)]
        /\ Col(p[1], p[2]).chunk_versions[chunk_idx(i)] <= Col(p[1], p[2]).version

\* a despawn moved the last row into a chunk whose other row is older: the
\* chunk version equals the moved row's version
C1_Witness ==
    /\ last.op = "despawn" /\ last.moved.some
    /\ \E t \in ArchSets[last.src] : \E j \in Rows(last.src) :
        /\ j # last.row
        /\ chunk_idx(j) = chunk_idx(last.row)
        /\ Col(last.src, t).entity_versions[j] < Col(last.src, t).entity_versions[last.row]
        /\ Col(last.src, t).chunk_versions[chunk_idx(j)]
              = Col(last.src, t).entity_versions[last.row]

\* C3 (P4): in every archetype, the value at row i of every column is the
\* component value of the entity whose id is entities[i].
C3_RowsAgree ==
    \A p \in Columns : \A i \in Rows(p[1]) :
        Col(p[1], p[2]).ptr[i].owner = archetypes[p[1]].entities[i + 1]

\* a migration swap-removed a row that was not the last one, and both
\* archetypes hold rows afterwards
C3_Witness ==
    /\ last.op \in Migrations /\ last.moved.some
    /\ ArchLen(archetypes[last.src]) >= 1
    /\ ArchLen(archetypes[last.dst]) >= 2

\* C4 (drop-safety): every deposited value is, at any time, either held by
\* exactly one in-use row of an archetype that still exists, or was dropped
\* exactly once, or was returned to the caller exactly once; nothing that was
\* not deposited is dropped or returned.  Once every archetype is destroyed
\* each value has therefore been disposed of exactly once.
C4_DisposedOnce ==
    \A k \in Tokens :
        IF k \in deposited
        THEN LiveCopies(k) + dropped[k] + returned[k] = 1
        ELSE LiveCopies(k) = 0 /\ dropped[k] = 0 /\ returned[k] = 0

\* every archetype is destroyed after a run in which a value was returned by
\* remove, one was dropped, and at least three were deposited
C4_Witness ==
    /\ \A a \in ArchIds : ~alive[a]
    /\ \E k \in Tokens : returned[k] = 1
    /\ \E k \in Tokens : dropped[k] = 1
    /\ Cardinality(deposited) >= 3

\* the archetype and row of a live entity
ArchOf(e) == CHOOSE a \in ArchIds : e \in Range(archetypes[a].entities)
RowOf(e) ==
    CHOOSE i \in Rows(ArchOf(e)) : archetypes[ArchOf(e)].entities[i + 1] = e

C6_ZeroIffEmpty ==
    \A p \in Columns : \A i \in DOMAIN Col(p[1], p[2]).entity_versions :
        (Col(p[1], p[2]).entity_versions[i] = 0) <=> (i >= ArchLen(archetypes[p[1]]))

\* chunk_versions[c] of a column before the destination array was grown
ChunkVersionBefore(c, k) ==
    IF k \in DOMAIN c.chunk_versions THEN c.chunk_versions[k] ELSE 0

\* C7: a migration at world epoch `epoch` leaves, in every column of both
\* archetypes that the bundle does not write, the source row's entity_version
\* in the destination row, and raises the destination's chunk version and
\* column version to the maximum of their value and that entity_version; the
\* columns the bundle or the inserted value is deposited in are stamped
\* with `epoch`.
C7_MigrationKeepsVersions ==
    [][last'.op \in Migrations =>
        \A t \in ArchSets[last'.dst] :
            LET dc == archetypes[last'.dst].components[t]
                dc_after == archetypes'[last'.dst].components[t]
                k == chunk_idx(last'.dst_row)
            IN  IF t \in last'.written
                THEN /\ dc_after.entity_versions[last'.dst_row] = last'.epoch
                     /\ dc_after.chunk_versions[k] = last'.epoch
                     /\ dc_after.version = last'.epoch
                ELSE LET e == archetypes[last'.src].components[t].entity_versions[last'.row]
                     IN  /\ dc_after.entity_versions[last'.dst_row] = e
                         /\ dc_after.chunk_versions[k] = Max(ChunkVersionBefore(dc, k), e)
                         /\ dc_after.version = Max(dc.version, e)]_vars

\* an insert brought a row whose Pos was written at an earlier epoch into an
\* archetype whose Pos column had already seen a later one
C7_Witness ==
    /\ last.op = "insert"
    /\ Col(last.dst, "Pos").entity_versions[last.dst_row] < last.epoch
    /\ Col(last.dst, "Pos").entity_versions[last.dst_row] < Col(last.dst, "Pos").version
    /\ Col(last.dst, "Vel").version = last.epoch

----------------------------------------------------------------------------
(* bundle.rs: Bundle::static_valid of the tuple bundles *)

\* longest tuple bundle: for_tuple!(for A B C D E F G)
MaxArity == 7

BundleTypes == {"Pos", "Vel", "Tag", "Name"}

\* the sequences over S of length at most n
SeqsUpTo(S, n) == UNION {[1..k -> S] : k \in 0..n}

\* the slice pattern [head, tail @ ..]
SliceTail(ids) == SubSeq(ids, 2, Len(ids))

\* one turn of `while let [check, rest @ ..] = ids`: whether it returns
\* false, and the slice `ids` it leaves
static_valid_turn(ids) ==
    LET check == ids[1]
        rest == SliceTail(ids)
    IN  IF rest # << >>
        THEN [ret_false |-> rest[1] = check, ids |-> SliceTail(rest)]
        ELSE [ret_false |-> FALSE, ids |-> rest]

\* impl Bundle for (): static_valid() is true
StaticValidUnit ==
    /\ sv_ret = "running"
    /\ bundle_ids = << >>
    /\ sv_ret' = "true"
    /\ UNCHANGED <<bundle_ids, sv_ids, archVars, queryVars, it, matchVars>>

\* impl Bundle for (A, ...): a turn of the loop returns false or goes on
StaticValidTurn ==
    /\ sv_ret = "running"
    /\ bundle_ids # << >>
    /\ sv_ids # << >>
    /\ LET turn == static_valid_turn(sv_ids)
       IN  /\ sv_ret' = IF turn.ret_false THEN "false" ELSE "running"
           /\ sv_ids' = IF turn.ret_false THEN sv_ids ELSE turn.ids
    /\ UNCHANGED <<bundle_ids, archVars, queryVars, it, matchVars>>

\* the loop ends on the empty slice: static_valid returns true
StaticValidEnd ==
    /\ sv_ret = "running"
    /\ bundle_ids # << >>
    /\ sv_ids = << >>
    /\ sv_ret' = "true"
    /\ UNCHANGED <<bundle_ids, sv_ids, archVars, queryVars, it, matchVars>>

BundleInit ==
    /\ bundle_ids \in SeqsUpTo(BundleTypes, MaxArity)
    /\ sv_ids = bundle_ids
    /\ sv_ret = "running"
    /\ ArchIdle /\ QueryIdle /\ IterIdle /\ MatchIdle

BundleNext ==
    \/ StaticValidUnit
    \/ StaticValidTurn
    \/ StaticValidEnd

SpecBundle == BundleInit /\ [][BundleNext]_vars

----------------------------------------------------------------------------
(* query/mod.rs, read.rs, write.rs, modified.rs: the static side of Query *)

\* A query type is a leaf of kind k on component type t, with k one of "read"
\* (&T), "write" (&mut T), "mod_read" (Modified<&T>), "mod_write"
\* (Modified<&mut T>), or a tuple of element query types.
LeafKinds == {"read", "write", "mod_read", "mod_write"}
Leaf(k, t) == [k |-> k, t |-> t, elems |-> << >>]
Tuple(elems) == [k |-> "tuple", t |-> "-", elems |-> elems]
LeafQueries == {Leaf(k, t) : k \in LeafKinds, t \in Types}
IsLeaf(q) == q.k # "tuple"
Unit == Tuple(<< >>)

\* longest tuple query of the model (query/mod.rs implements arities 0..16)
MaxTuple == 3

BoolStr(b) == IF b THEN "true" ELSE "false"

\* a merge in which the left operand wins over any right operand
merge_access_LeftWins(lhs, rhs) ==
    IF lhs = "None" THEN rhs ELSE lhs

merge_access(lhs, rhs) ==
    IF lhs = "None" THEN rhs
    ELSE IF rhs = "None" THEN lhs
    ELSE IF lhs = "Shared" /\ rhs = "Shared" THEN "Shared"
    ELSE "Mutable"

\* Query for &T / &mut T: access; Modified<..> forwards to them
leaf_access(q, ty) ==
    IF ty # q.t THEN "None"
    ELSE IF q.k \in {"read", "mod_read"} THEN "Shared" ELSE "Mutable"

RECURSIVE access(_, _)
\* Query::access; for a tuple the accesses of the elements merged in order
access(q, ty) ==
    IF IsLeaf(q) THEN leaf_access(q, ty)
    ELSE LET RECURSIVE fold(_, _)
             fold(acc, k) ==
                 IF k > Len(q.elems) THEN acc
                 ELSE fold(merge_access(acc, access(q.elems[k], ty)), k + 1)
         IN  fold("None", 1)

\* an allowed_with of &mut T that accepts every access short of Mutable
leaf_allowed_with_WriteBesideShared(q, other_access) ==
    other_access \in {"None", "Shared"}

\* an allowed_with of &T that accepts every access of the other query
leaf_allowed_with_ReadBesideAny(q, other_access) ==
    IF q.k \in {"read", "mod_read"}
    THEN TRUE
    ELSE other_access = "None"

\* Query for &T / &mut T: allowed_with::<Q>(), given Q::access(TypeId::of::<T>())
leaf_allowed_with(q, other_access) ==
    IF q.k \in {"read", "mod_read"}
    THEN other_access \in {"None", "Shared"}
    ELSE other_access = "None"

RECURSIVE allowed_with(_, _)
\* Query::allowed_with::<Q>(); for a tuple the conjunction over its elements,
\* for () true
allowed_with(q, other) ==
    IF IsLeaf(q) THEN leaf_allowed_with(q, access(other, q.t))
    ELSE \A k \in 1..Len(q.elems) : allowed_with(q.elems[k], other)

\* a bitor that forgets what the left operand had already found
bitor_ForgetsLhs(self, rhs) ==
    [allowed |-> rhs.allowed /\ allowed_with(rhs.q, self.q),
     q |-> Tuple(<<rhs.q, self.q>>)]

\* QueryAllowed::bitor: self is QueryAllowed<R>, rhs is QueryAllowed<L>, the
\* result is QueryAllowed<(L, R)>
bitor(self, rhs) ==
    [allowed |-> self.allowed /\ rhs.allowed /\ allowed_with(rhs.q, self.q),
     q |-> Tuple(<<rhs.q, self.q>>)]

QueryAllowed(b, q) == [allowed |-> b, q |-> q]

\* Query::is_valid: true for the leaves and for (); for a tuple the
\* left-to-right `|` of QueryAllowed(true, element)
is_valid(q) ==
    IF IsLeaf(q) \/ q = Unit THEN TRUE
    ELSE LET RECURSIVE fold(_, _)
             fold(acc, k) ==
                 IF k > Len(q.elems) THEN acc
                 ELSE fold(bitor(acc, QueryAllowed(TRUE, q.elems[k])), k + 1)
         IN  fold(QueryAllowed(TRUE, q.elems[1]), 2).allowed

\* the query types the static checks are run on: leaves, tuples of leaves,
\* and pairs whose elements are leaves or pairs of leaves
TuplesOf(S, n) == {Tuple(es) : es \in SeqsUpTo(S, n)}
FlatTuples == TuplesOf(LeafQueries, MaxTuple)
NestedPairs == {Tuple(es) : es \in [1..2 -> LeafQueries \cup TuplesOf(LeafQueries, 2)]}
QueryTypes == LeafQueries \cup FlatTuples \cup NestedPairs
PairedTypes == LeafQueries \cup TuplesOf(LeafQueries, 2)

EvalIsValid ==
    /\ q_valid = "unset"
    /\ q_valid' = BoolStr(is_valid(qa))
    /\ UNCHANGED <<qa, qb, q_allowed, archVars, bundleVars, it, matchVars>>

EvalAllowedWith ==
    /\ q_allowed = "unset"
    /\ q_allowed' = BoolStr(allowed_with(qa, qb))
    /\ UNCHANGED <<qa, qb, q_valid, archVars, bundleVars, it, matchVars>>

QueryInit ==
    /\ \/ qa \in QueryTypes /\ qb = Unit
       \/ qa \in PairedTypes /\ qb \in PairedTypes
    /\ q_valid = "unset"
    /\ q_allowed = "unset"
    /\ ArchIdle /\ BundleIdle /\ IterIdle /\ MatchIdle

QueryNext ==
    \/ EvalIsValid
    \/ EvalAllowedWith

SpecQuery == QueryInit /\ [][QueryNext]_vars

----------------------------------------------------------------------------
(* query/mod.rs: QueryTrackedIter over Modified<&T>, with F = () *)

\* a step that takes the item at the back of the range
indices_next_Back(r) ==
    IF r.start < r.end
    THEN [item |-> Some(r.end - 1), range |-> [r EXCEPT !.end = r.end - 1]]
    ELSE [item |-> None, range |-> r]

\* Range<usize>::next
indices_next(r) ==
    IF r.start < r.end
    THEN [item |-> Some(r.start), range |-> [r EXCEPT !.start = r.start + 1]]
    ELSE [item |-> None, range |-> r]

\* Range<usize>::nth(n): the n-th item from the front and the range after it
indices_nth(r, n) ==
    IF r.start + n < r.end
    THEN [item |-> Some(r.start + n), range |-> [r EXCEPT !.start = r.start + n + 1]]
    ELSE [item |-> None, range |-> [r EXCEPT !.start = r.end]]

\* a skip_chunk with the operands of its comparison exchanged
skip_chunk_Exchanged(c, tracks, chunk) == tracks <= c.chunk_versions[chunk]
\* ModifiedFetchRead::skip_chunk / skip_item on the column the fetch points at
skip_chunk(c, tracks, chunk) == c.chunk_versions[chunk] <= tracks
skip_item(c, tracks, idx) == c.entity_versions[idx] <= tracks

\* Modified<&T>::fetch: Some when the archetype has a column of T
fetch(a, t) == IF t \in a.set THEN Some(a.components[t]) ELSE None

\* the archetypes `self.archetypes.next()` still has to hand out that fetch
\* returns Some for
Fetchable(from, t) == {a \in ArchIds : a >= from /\ fetch(archetypes[a], t).some}

IterActive == it.kind = "tracked" /\ ~it.done

\* QueryTrackedIter::new(tracks, epoch, archetypes, filter)
TrackedNew(t, tracks) ==
    /\ Running
    /\ it' = [NoIter EXCEPT !.kind = "tracked", !.t = t, !.tracks = tracks]
    /\ UNCHANGED <<archVars, bundleVars, queryVars, matchVars>>

\* next(), indices exhausted: the inner loop takes archetypes until fetch
\* returns Some, or returns None when there are no more
TrackedNextArchetype ==
    /\ IterActive
    /\ ~indices_next(it.indices).item.some
    /\ IF Fetchable(it.archetypes, it.t) = {}
       THEN it' = [it EXCEPT !.archetypes = Len(ArchSets) + 1, !.done = TRUE]
       ELSE LET a == CHOOSE x \in Fetchable(it.archetypes, it.t) :
                        \A y \in Fetchable(it.archetypes, it.t) : x <= y
            IN  it' = [it EXCEPT !.archetypes = a + 1,
                                 !.cur = a,
                                 !.indices = [start |-> 0, end |-> ArchLen(archetypes[a])]]
    /\ UNCHANGED <<archVars, bundleVars, queryVars, matchVars>>

\* next(), Some(idx) at the first row of a chunk that skip_chunk rejects:
\* self.indices.nth(CHUNK_LEN_USIZE - 1); continue
TrackedSkipChunk ==
    /\ IterActive
    /\ LET n == indices_next(it.indices)
           idx == n.item.v
           c == archetypes[it.cur].components[it.t]
       IN  /\ n.item.some
           /\ first_of_chunk(idx).some
           /\ skip_chunk(c, it.tracks, first_of_chunk(idx).v)
           /\ it' = [it EXCEPT !.indices = indices_nth(n.range, CHUNK_LEN_USIZE - 1).range]
    /\ UNCHANGED <<archVars, bundleVars, queryVars, matchVars>>

\* Modified<&T>::mutates
mutates == FALSE

\* next(), Some(idx), chunk not skipped, skip_item(idx): the loop goes on
TrackedSkipItem ==
    /\ IterActive
    /\ LET n == indices_next(it.indices)
           idx == n.item.v
           c == archetypes[it.cur].components[it.t]
       IN  /\ n.item.some
           /\ first_of_chunk(idx).some => ~skip_chunk(c, it.tracks, first_of_chunk(idx).v)
           /\ skip_item(c, it.tracks, idx)
           /\ it' = [it EXCEPT !.indices = n.range,
                               !.visit_chunk = IF first_of_chunk(idx).some
                                               THEN mutates ELSE @]
    /\ UNCHANGED <<archVars, bundleVars, queryVars, matchVars>>

\* next(), Some(idx), chunk not skipped, item not skipped:
\* return Some((entity, item))
TrackedYield ==
    /\ IterActive
    /\ LET n == indices_next(it.indices)
           idx == n.item.v
           c == archetypes[it.cur].components[it.t]
       IN  /\ n.item.some
           /\ first_of_chunk(idx).some => ~skip_chunk(c, it.tracks, first_of_chunk(idx).v)
           /\ ~skip_item(c, it.tracks, idx)
           /\ it' = [it EXCEPT !.indices = n.range,
                               !.visit_chunk = FALSE,
                               !.yielded = Append(@, <<it.cur, archetypes[it.cur].entities[idx + 1], idx>>)]
    /\ UNCHANGED <<archVars, bundleVars, queryVars, matchVars>>

\* the cutoffs a subscriber's Tracks can hold (0: it has observed nothing)
TrackCutoffs == 0..(MaxEpoch - 1)

TrackedNext ==
    \/ ArchNext
    \/ \E t \in Types, tracks \in TrackCutoffs : TrackedNew(t, tracks)
    \/ TrackedNextArchetype
    \/ TrackedSkipChunk
    \/ TrackedSkipItem
    \/ TrackedYield

\* a tracked pass over archetypes left by any sequence of operations
SpecTracked == ArchInit /\ [][TrackedNext]_vars

----------------------------------------------------------------------------
(* query/mod.rs: QueryIter over the non-tracking queries &T, &mut T and
   their tuples, with the filter () (whose skip_archetype is false) *)

\* a tuple that mutates only when its last element does
Query_mutates_LastOnly(q) ==
    IF IsLeaf(q) THEN q.k = "write"
    ELSE q.elems # << >> /\ q.elems[Len(q.elems)].k = "write"

RECURSIVE Query_mutates(_)
\* Query::mutates
Query_mutates(q) ==
    IF q.k = "write" THEN TRUE
    ELSE IF q.k = "read" THEN FALSE
    ELSE \E i \in DOMAIN q.elems : Query_mutates(q.elems[i])

RECURSIVE Query_skip_archetype(_, _)
\* Query::skip_archetype(archetype, 0)
Query_skip_archetype(q, a) ==
    IF IsLeaf(q) THEN q.t \notin a.set
    ELSE \E i \in DOMAIN q.elems : Query_skip_archetype(q.elems[i], a)

RECURSIVE Query_fetch(_, _, _, _)
RECURSIVE tuple_fetch(_, _, _, _, _)
\* Query::fetch(archetype, 0, epoch): whether it is Some, the archetype it
\* leaves, and whether a debug assertion failed on the way
Query_fetch(q, a, ep, dbg) ==
    IF q.k = "read"
    THEN [some |-> q.t \in a.set, arch |-> a, panic |-> FALSE]
    ELSE IF q.k = "write"
    THEN IF q.t \notin a.set
         THEN [some |-> FALSE, arch |-> a, panic |-> FALSE]
         ELSE [some |-> TRUE,
               arch |-> [a EXCEPT !.components[q.t].version = ep],
               panic |-> dbg /\ ~(a.components[q.t].version < ep)]
    ELSE tuple_fetch(q.elems, 1, a, ep, dbg)

\* Some(($a::fetch(archetype, track, epoch)?,)+): the elements in order, out
\* at the first None
tuple_fetch(elems, i, a, ep, dbg) ==
    IF i > Len(elems)
    THEN [some |-> TRUE, arch |-> a, panic |-> FALSE]
    ELSE LET r == Query_fetch(elems[i], a, ep, dbg)
         IN  IF r.panic \/ ~r.some THEN r
             ELSE tuple_fetch(elems, i + 1, r.arch, ep, dbg)

RECURSIVE Fetch_visit_chunk(_, _, _, _)
RECURSIVE tuple_visit_chunk(_, _, _, _, _)
\* Fetch::visit_chunk(chunk_idx), the archetype it leaves
Fetch_visit_chunk(q, a, chunk, ep) ==
    IF q.k = "write"
    THEN [a EXCEPT !.components[q.t].chunk_versions[chunk] = ep]
    ELSE IF q.k = "read" THEN a
    ELSE tuple_visit_chunk(q.elems, 1, a, chunk, ep)

tuple_visit_chunk(elems, i, a, chunk, ep) ==
    IF i > Len(elems) THEN a
    ELSE tuple_visit_chunk(elems, i + 1, Fetch_visit_chunk(elems[i], a, chunk, ep), chunk, ep)

RECURSIVE Fetch_get_item(_, _, _, _)
RECURSIVE tuple_get_item(_, _, _, _, _)
\* Fetch::get_item(idx), the archetype it leaves
Fetch_get_item(q, a, idx, ep) ==
    IF q.k = "write"
    THEN [a EXCEPT !.components[q.t].entity_versions[idx] = ep]
    ELSE IF q.k = "read" THEN a
    ELSE tuple_get_item(q.elems, 1, a, idx, ep)

tuple_get_item(elems, i, a, idx, ep) ==
    IF i > Len(elems) THEN a
    ELSE tuple_get_item(elems, i + 1, Fetch_get_item(elems[i], a, idx, ep), idx, ep)

RECURSIVE WrittenTypes(_)
\* the columns a query's fetch writes version stamps to
WrittenTypes(q) ==
    IF q.k = "write" THEN {q.t}
    ELSE IF q.k = "read" THEN {}
    ELSE UNION {WrittenTypes(q.elems[i]) : i \in DOMAIN q.elems}

\* debug_assert!(*chunk_version < self.epoch) of FetchWrite::visit_chunk
VisitChunkAssertsHold(q, a, chunk, ep) ==
    \A t \in WrittenTypes(q) : a.components[t].chunk_versions[chunk] < ep

\* debug_assert!(*entity_version < self.epoch) of FetchWrite::get_item
GetItemAssertsHold(q, a, idx, ep) ==
    \A t \in WrittenTypes(q) : a.components[t].entity_versions[idx] < ep

\* the queries a QueryIter is made for: &T, &mut T and tuples of up to two
\* of them that pass is_valid
RWLeaves == {Leaf(k, t) : k \in {"read", "write"}, t \in Types}
IterQueries == {q \in RWLeaves \cup TuplesOf(RWLeaves, 2) : is_valid(q)}

RECURSIVE next_archetype(_, _, _, _, _)
\* the inner loop of next(): take archetypes until Q::fetch returns Some.
\* found = 0 when self.archetypes.next() returned None.
next_archetype(from, archs, q, ep, dbg) ==
    IF from > Len(ArchSets)
    THEN [found |-> 0, archs |-> archs, panic |-> FALSE]
    ELSE LET r == Query_fetch(q, archs[from], ep, dbg)
             after == [archs EXCEPT ![from] = r.arch]
         IN  IF r.panic THEN [found |-> 0, archs |-> archs, panic |-> TRUE]
             ELSE IF r.some THEN [found |-> from, archs |-> after, panic |-> FALSE]
             ELSE next_archetype(from + 1, after, q, ep, dbg)

IterWalking == it.kind = "iter" /\ ~it.done /\ failed = "none"

\* QueryIter::new(epoch, archetypes, ()); the world hands a query that may
\* write a fresh epoch, here also the one after the last epoch an archetype
\* operation can take
IterNew(q) ==
    /\ Running
    /\ epoch <= MaxEpoch
    /\ it' = [NoIter EXCEPT !.kind = "iter", !.q = q, !.epoch = epoch + 1,
                            !.before = archetypes]
    /\ epoch' = epoch + 1
    /\ UNCHANGED <<archetypes, alive, debug, deposited, dropped, returned, last, failed>>
    /\ UNCHANGED <<bundleVars, queryVars, matchVars>>

\* next(), indices exhausted: move to the next archetype, or return None
IterNextArchetype ==
    /\ IterWalking
    /\ ~indices_next(it.indices).item.some
    /\ LET r == next_archetype(it.archetypes, archetypes, it.q, it.epoch, debug)
       IN  IF r.panic
           THEN /\ failed' = "fetch"
                /\ UNCHANGED <<archetypes, it>>
           ELSE /\ archetypes' = r.archs
                /\ failed' = failed
                /\ it' = IF r.found = 0
                         THEN [it EXCEPT !.archetypes = Len(ArchSets) + 1, !.done = TRUE]
                         ELSE [it EXCEPT !.archetypes = r.found + 1,
                                         !.cur = r.found,
                                         !.indices = [start |-> 0,
                                                      end |-> ArchLen(archetypes[r.found])]]
    /\ UNCHANGED <<alive, epoch, debug, deposited, dropped, returned, last>>
    /\ UNCHANGED <<bundleVars, queryVars, matchVars>>

\* next(), Some(idx): visit_chunk on the first row of a chunk when the query
\* mutates, get_item, return Some((entity, item))
IterYield ==
    /\ IterWalking
    /\ LET n == indices_next(it.indices)
           idx == n.item.v
           a == archetypes[it.cur]
           chunk == first_of_chunk(idx)
           visits == Query_mutates(it.q) /\ chunk.some
           visited == IF visits THEN Fetch_visit_chunk(it.q, a, chunk.v, it.epoch) ELSE a
       IN  /\ n.item.some
           /\ IF debug /\ visits /\ ~VisitChunkAssertsHold(it.q, a, chunk.v, it.epoch)
              THEN /\ failed' = "visit_chunk"
                   /\ UNCHANGED <<archetypes, it>>
              ELSE IF debug /\ ~GetItemAssertsHold(it.q, visited, idx, it.epoch)
              THEN /\ failed' = "get_item"
                   /\ UNCHANGED <<archetypes, it>>
              ELSE /\ archetypes' = [archetypes EXCEPT ![it.cur] =
                                        Fetch_get_item(it.q, visited, idx, it.epoch)]
                   /\ failed' = failed
                   /\ it' = [it EXCEPT !.indices = n.range,
                                       !.visits = IF visits
                                                  THEN Append(@, <<it.cur, chunk.v, Len(it.yielded)>>)
                                                  ELSE @,
                                       !.yielded = Append(@, <<it.cur, a.entities[idx + 1], idx>>)]
    /\ UNCHANGED <<alive, epoch, debug, deposited, dropped, returned, last>>
    /\ UNCHANGED <<bundleVars, queryVars, matchVars>>

RECURSIVE len_fold_CountsAll(_, _, _)
\* a fold that adds the length of every remaining archetype
len_fold_CountsAll(from, acc, q) ==
    IF from > Len(ArchSets) THEN acc
    ELSE len_fold_CountsAll(from + 1, acc + ArchLen(archetypes[from]), q)

RECURSIVE len_fold(_, _, _)
\* the fold of ExactSizeIterator::len over self.archetypes.clone()
len_fold(from, acc, q) ==
    IF from > Len(ArchSets) THEN acc
    ELSE len_fold(from + 1,
                  IF Query_skip_archetype(q, archetypes[from])
                  THEN acc ELSE acc + ArchLen(archetypes[from]),
                  q)

\* ExactSizeIterator::len
QueryIter_len == len_fold(it.archetypes, it.indices.end - it.indices.start, it.q)

\* QueryIter::size_hint
QueryIter_size_hint == [lower |-> QueryIter_len, upper |-> Some(QueryIter_len)]

IterNext ==
    \/ ArchNext
    \/ \E q \in IterQueries : IterNew(q)
    \/ IterNextArchetype
    \/ IterYield

\* a QueryIter pass over archetypes left by any sequence of operations
SpecIter == ArchInit /\ [][IterNext]_vars

----------------------------------------------------------------------------
(* query/mod.rs: QueryTrackedIter over Modified<&mut T> and Modified<Alt<T>>,
   with F = (), on archetypes that hold rows written at earlier epochs *)

\* the world epoch the populated archetypes were last written at
InitEpoch == MaxEpoch - 1
\* rows of the populated archetypes: the second reaches past a skipped chunk
MaxRows == MaxEntities + 1

\* number of chunks that cover n rows
NChunks(n) == (n + CHUNK_LEN_USIZE - 1) \div CHUNK_LEN_USIZE

\* the version stamps a column of n rows can carry under P1
Patterns(n) ==
    {p \in [ev : [0..(n - 1) -> 1..InitEpoch],
            cv : [0..(NChunks(n) - 1) -> 1..InitEpoch],
            version : 0..InitEpoch] :
        /\ \A i \in 0..(n - 1) : p.ev[i] <= p.cv[chunk_idx(i)]
        /\ \A c \in 0..(NChunks(n) - 1) : p.cv[c] <= p.version}

\* an archetype of n rows (entities first + 1 .. first + n) in an allocation
\* of n rows, every column stamped with pattern p
Populated(set, n, p, first) ==
    [set |-> set,
     entities |-> [i \in 1..n |-> first + i],
     cap |-> n,
     components |->
        [t \in set |->
            [ptr |-> [i \in 0..(n - 1) |-> Value(first + i + 1, p.ev[i])],
             version |-> p.version,
             entity_versions |-> [i \in 0..(n - 1) |-> p.ev[i]],
             chunk_versions |->
                [c \in 0..(chunks_count(n) - 1) |->
                    IF c < NChunks(n) THEN p.cv[c] ELSE 0]]]]

TrackedMutInit ==
    /\ \E n1 \in 0..CHUNK_LEN_USIZE, n2 \in 0..MaxRows :
        \E p1 \in Patterns(n1), p2 \in Patterns(n2) :
            archetypes = [a \in ArchIds |->
                            IF a = 1 THEN Populated(ArchSets[1], n1, p1, 0)
                            ELSE Populated(ArchSets[a], n2, p2, n1)]
    /\ alive = [a \in ArchIds |-> TRUE]
    /\ epoch = InitEpoch
    /\ debug \in BOOLEAN
    /\ deposited = {}
    /\ dropped = [k \in Tokens |-> 0]
    /\ returned = [k \in Tokens |-> 0]
    /\ last = Op("new", 1, 1, 0, 0, {}, 0, None, Uninit, NoImage, FALSE)
    /\ failed = "none"
    /\ BundleIdle /\ QueryIdle /\ IterIdle /\ MatchIdle

TrackedKinds == {"mod_write", "mod_alt"}

\* Modified<&mut T>::mutates, Modified<Alt<T>>::mutates
Modified_mutates(q) == q.k \in {"mod_write", "mod_alt"}

\* Modified<&mut T>::fetch and Modified<Alt<T>>::fetch: whether it is Some,
\* the archetype it leaves, and whether its debug assertion failed
Modified_fetch(q, a, tracks, ep, dbg) ==
    IF q.t \notin a.set
    THEN [some |-> FALSE, arch |-> a, panic |-> FALSE]
    ELSE IF q.k = "mod_alt" /\ a.components[q.t].version < tracks
    THEN [some |-> FALSE, arch |-> a, panic |-> FALSE]
    ELSE [some |-> TRUE,
          arch |-> [a EXCEPT !.components[q.t].version = ep],
          panic |-> dbg /\ ~(a.components[q.t].version < ep)]

\* ModifiedFetchAlt has no visit_chunk of its own: visiting a chunk stamps
\* nothing, the stamp is left to the handle's mutable dereference
ModifiedFetchAlt_visit_chunk(a, chunk, ep) == a

\* a visit_chunk that stamps the chunk with the epoch after the pass's
Modified_visit_chunk_Ahead(q, a, chunk, ep) ==
    IF q.k = "mod_write"
    THEN [a EXCEPT !.components[q.t].chunk_versions[chunk] = ep + 1]
    ELSE ModifiedFetchAlt_visit_chunk(a, chunk, ep)

\* ModifiedFetchWrite::visit_chunk stamps the chunk
Modified_visit_chunk(q, a, chunk, ep) ==
    IF q.k = "mod_write"
    THEN [a EXCEPT !.components[q.t].chunk_versions[chunk] = ep]
    ELSE ModifiedFetchAlt_visit_chunk(a, chunk, ep)

\* a get_item of Modified<Alt<T>> that stamps the row like Modified<&mut T>
Modified_get_item_AltStamps(q, a, idx, ep) ==
    [a EXCEPT !.components[q.t].entity_versions[idx] = ep]

\* ModifiedFetchWrite::get_item stamps the row; ModifiedFetchAlt::get_item
\* hands out a RefMut and writes nothing
Modified_get_item(q, a, idx, ep) ==
    IF q.k = "mod_write"
    THEN [a EXCEPT !.components[q.t].entity_versions[idx] = ep]
    ELSE a

\* RefMut: the mutable dereference of the handle of row idx
RefMut_deref_mut(a, t, idx, ep) ==
    [a EXCEPT !.components[t].entity_versions[idx] = ep,
              !.components[t].chunk_versions[chunk_idx(idx)] = Max(@, ep)]

RECURSIVE next_tracked_archetype(_, _, _, _, _, _)
\* the inner loop of next(): take archetypes until Q::fetch returns Some
next_tracked_archetype(from, archs, q, tracks, ep, dbg) ==
    IF from > Len(ArchSets)
    THEN [found |-> 0, archs |-> archs, panic |-> FALSE]
    ELSE LET r == Modified_fetch(q, archs[from], tracks, ep, dbg)
             after == [archs EXCEPT ![from] = r.arch]
         IN  IF r.panic THEN [found |-> 0, archs |-> archs, panic |-> TRUE]
             ELSE IF r.some THEN [found |-> from, archs |-> after, panic |-> FALSE]
             ELSE next_tracked_archetype(from + 1, after, q, tracks, ep, dbg)

MutWalking == it.kind = "tracked_mut" /\ ~it.done /\ failed = "none"

\* QueryTrackedIter::new(tracks, epoch, archetypes, ()) at a fresh epoch
MutNew(k, t, tracks) ==
    /\ Running
    /\ epoch <= MaxEpoch
    /\ tracks <= epoch
    /\ it' = [NoIter EXCEPT !.kind = "tracked_mut", !.q = Leaf(k, t), !.t = t,
                            !.tracks = tracks, !.epoch = epoch + 1,
                            !.before = archetypes, !.step = "new"]
    /\ epoch' = epoch + 1
    /\ UNCHANGED <<archetypes, alive, debug, deposited, dropped, returned, last, failed>>
    /\ UNCHANGED <<bundleVars, queryVars, matchVars>>

\* next(), indices exhausted: move to the next archetype, or return None
MutNextArchetype ==
    /\ MutWalking
    /\ ~indices_next(it.indices).item.some
    /\ LET r == next_tracked_archetype(it.archetypes, archetypes, it.q, it.tracks,
                                       it.epoch, debug)
       IN  IF r.panic
           THEN /\ failed' = "fetch"
                /\ UNCHANGED <<archetypes, it>>
           ELSE /\ archetypes' = r.archs
                /\ failed' = failed
                /\ it' = IF r.found = 0
                         THEN [it EXCEPT !.archetypes = Len(ArchSets) + 1,
                                         !.done = TRUE, !.step = "end"]
                         ELSE [it EXCEPT !.archetypes = r.found + 1,
                                         !.cur = r.found,
                                         !.indices = [start |-> 0,
                                                      end |-> ArchLen(archetypes[r.found])],
                                         !.step = "archetype"]
    /\ UNCHANGED <<alive, epoch, debug, deposited, dropped, returned, last>>
    /\ UNCHANGED <<bundleVars, queryVars, matchVars>>

\* next(), Some(idx) at the first row of a chunk that skip_chunk rejects:
\* self.indices.nth(CHUNK_LEN_USIZE - 1); continue
MutSkipChunk ==
    /\ MutWalking
    /\ LET n == indices_next(it.indices)
           idx == n.item.v
           c == archetypes[it.cur].components[it.q.t]
       IN  /\ n.item.some
           /\ first_of_chunk(idx).some
           /\ skip_chunk(c, it.tracks, first_of_chunk(idx).v)
           /\ it' = [it EXCEPT !.indices = indices_nth(n.range, CHUNK_LEN_USIZE - 1).range,
                               !.step = "skip_chunk"]
    /\ UNCHANGED <<archVars, bundleVars, queryVars, matchVars>>

\* self.visit_chunk after the chunk-boundary branch of next() at row idx
pending_visit(idx) ==
    IF first_of_chunk(idx).some THEN Modified_mutates(it.q) ELSE it.visit_chunk

\* next(), Some(idx), chunk not skipped, skip_item(idx): the loop goes on
MutSkipItem ==
    /\ MutWalking
    /\ LET n == indices_next(it.indices)
           idx == n.item.v
           c == archetypes[it.cur].components[it.q.t]
       IN  /\ n.item.some
           /\ first_of_chunk(idx).some => ~skip_chunk(c, it.tracks, first_of_chunk(idx).v)
           /\ skip_item(c, it.tracks, idx)
           /\ it' = [it EXCEPT !.indices = n.range,
                               !.visit_chunk = pending_visit(idx),
                               !.step = "skip_item"]
    /\ UNCHANGED <<archVars, bundleVars, queryVars, matchVars>>

\* next(), Some(idx), chunk not skipped, item not skipped: the pending
\* visit_chunk(chunk_idx(idx)), get_item(idx), return Some((entity, item))
MutYield ==
    /\ MutWalking
    /\ LET n == indices_next(it.indices)
           idx == n.item.v
           a == archetypes[it.cur]
           c == a.components[it.q.t]
           visits == pending_visit(idx)
           visited == IF visits
                      THEN Modified_visit_chunk(it.q, a, chunk_idx(idx), it.epoch)
                      ELSE a
       IN  /\ n.item.some
           /\ first_of_chunk(idx).some => ~skip_chunk(c, it.tracks, first_of_chunk(idx).v)
           /\ ~skip_item(c, it.tracks, idx)
           /\ IF /\ debug /\ visits /\ it.q.k = "mod_write"
                 /\ ~(c.chunk_versions[chunk_idx(idx)] < it.epoch)
              THEN /\ failed' = "visit_chunk"
                   /\ UNCHANGED <<archetypes, it>>
              ELSE IF /\ debug /\ it.q.k = "mod_write"
                      /\ ~(c.entity_versions[idx] < it.epoch)
              THEN /\ failed' = "get_item"
                   /\ UNCHANGED <<archetypes, it>>
              ELSE /\ archetypes' = [archetypes EXCEPT ![it.cur] =
                                        Modified_get_item(it.q, visited, idx, it.epoch)]
                   /\ failed' = failed
                   /\ it' = [it EXCEPT
                        !.indices = n.range,
                        !.visit_chunk = FALSE,
                        !.visits = IF visits
                                   THEN Append(@, <<it.cur, chunk_idx(idx), Len(it.yielded)>>)
                                   ELSE @,
                        !.yielded = Append(@, <<it.cur, a.entities[idx + 1], idx>>),
                        !.step = "yield"]
    /\ UNCHANGED <<alive, epoch, debug, deposited, dropped, returned, last>>
    /\ UNCHANGED <<bundleVars, queryVars, matchVars>>

\* the caller writes through the handle the pass yielded as its j-th item
MutDeref(j) ==
    /\ it.kind = "tracked_mut" /\ failed = "none"
    /\ it.q.k = "mod_alt"
    /\ j \in 1..Len(it.yielded)
    /\ j \notin it.derefs
    /\ LET y == it.yielded[j]
       IN  archetypes' = [archetypes EXCEPT ![y[1]] =
                            RefMut_deref_mut(@, it.q.t, y[3], it.epoch)]
    /\ it' = [it EXCEPT !.derefs = @ \cup {j}, !.step = "deref"]
    /\ UNCHANGED <<alive, epoch, debug, deposited, dropped, returned, last, failed>>
    /\ UNCHANGED <<bundleVars, queryVars, matchVars>>

TrackedMutNext ==
    \/ \E k \in TrackedKinds, t \in Types, tracks \in TrackCutoffs : MutNew(k, t, tracks)
    \/ MutNextArchetype
    \/ MutSkipChunk
    \/ MutSkipItem
    \/ MutYield
    \/ \E j \in 1..(CHUNK_LEN_USIZE + MaxRows) : MutDeref(j)

\* a tracked pass with a mutating query over populated archetypes
SpecTrackedMut == TrackedMutInit /\ [][TrackedMutNext]_vars

----------------------------------------------------------------------------
(* query/mod.rs: QueryTrackedIter::fold *)

RECURSIVE fold_rows(_, _, _, _, _, _, _, _, _)
\* one `while let Some(idx) = indices.next()` loop of fold over archetype
\* cur: the archetype it leaves, self.visit_chunk, and the items handed to f.
\* own: the loop runs on self.indices (the first loop); the loops over the
\* remaining archetypes run on a local range while the skip of a chunk still
\* advances self.indices, which is exhausted by then.
fold_rows(q, a, cur, indices, flag, tracks, ep, own, yielded) ==
    LET n == indices_next(indices)
        idx == n.item.v
        c == a.components[q.t]
        chunk == first_of_chunk(idx)
    IN  IF ~n.item.some
        THEN [arch |-> a, flag |-> flag, yielded |-> yielded]
        ELSE IF chunk.some /\ skip_chunk(c, tracks, chunk.v)
        THEN fold_rows(q, a, cur,
                       IF own THEN indices_nth(n.range, CHUNK_LEN_USIZE - 1).range
                       ELSE n.range,
                       flag, tracks, ep, own, yielded)
        ELSE LET pending == IF chunk.some THEN Modified_mutates(q) ELSE flag
             IN  IF skip_item(c, tracks, idx)
                 THEN fold_rows(q, a, cur, n.range, pending, tracks, ep, own, yielded)
                 ELSE LET visited == IF pending
                                     THEN Modified_visit_chunk(q, a, chunk_idx(idx), ep)
                                     ELSE a
                      IN  fold_rows(q, Modified_get_item(q, visited, idx, ep), cur,
                                    n.range, FALSE, tracks, ep, own,
                                    Append(yielded, <<cur, a.entities[idx + 1], idx>>))

RECURSIVE fold_archetypes(_, _, _, _, _, _, _)
\* `for archetype in self.archetypes` of fold: fetch, then the row loop
fold_archetypes(from, archs, q, tracks, ep, flag, yielded) ==
    IF from > Len(ArchSets)
    THEN [archs |-> archs, flag |-> flag, yielded |-> yielded]
    ELSE LET f == Modified_fetch(q, archs[from], tracks, ep, FALSE)
         IN  IF ~f.some
             THEN fold_archetypes(from + 1, archs, q, tracks, ep, flag, yielded)
             ELSE LET r == fold_rows(q, f.arch, from,
                                     [start |-> 0, end |-> ArchLen(f.arch)],
                                     flag, tracks, ep, FALSE, yielded)
                  IN  fold_archetypes(from + 1, [archs EXCEPT ![from] = r.arch],
                                      q, tracks, ep, r.flag, r.yielded)

\* QueryTrackedIter::fold from an iterator in state i over archetypes archs:
\* the rest of the current archetype, then the remaining archetypes
QueryTrackedIter_fold(i, archs) ==
    LET first == IF i.cur = 0
                 THEN [arch |-> archs[1], flag |-> i.visit_chunk, yielded |-> i.yielded]
                 ELSE fold_rows(i.q, archs[i.cur], i.cur, i.indices, i.visit_chunk,
                                i.tracks, i.epoch, TRUE, i.yielded)
        after == IF i.cur = 0 THEN archs ELSE [archs EXCEPT ![i.cur] = first.arch]
    IN  fold_archetypes(i.archetypes, after, i.q, i.tracks, i.epoch,
                        first.flag, first.yielded)

\* the debug assertions of fetch, visit_chunk and get_item hold all through
\* a pass at epoch ep: every version it can meet is below ep
FoldAssertsHold(q, archs, ep) ==
    \A a \in ArchIds :
        q.t \in archs[a].set =>
            /\ archs[a].components[q.t].version < ep
            /\ \A i \in 0..(ArchLen(archs[a]) - 1) :
                /\ archs[a].components[q.t].entity_versions[i] < ep
                /\ archs[a].components[q.t].chunk_versions[chunk_idx(i)] < ep

\* the caller folds the iterator instead of calling next() again
MutFold ==
    /\ MutWalking
    /\ it.derefs = {}
    /\ FoldAssertsHold(it.q, it.before, it.epoch)
    /\ LET r == QueryTrackedIter_fold(it, archetypes)
       IN  /\ archetypes' = r.archs
           /\ it' = [it EXCEPT !.archetypes = Len(ArchSets) + 1,
                               !.indices = [start |-> it.indices.end, end |-> it.indices.end],
                               !.visit_chunk = r.flag,
                               !.yielded = r.yielded,
                               !.done = TRUE,
                               !.step = "fold"]
    /\ UNCHANGED <<alive, epoch, debug, deposited, dropped, returned, last, failed>>
    /\ UNCHANGED <<bundleVars, queryVars, matchVars>>

TrackedFoldNext ==
    \/ TrackedMutNext
    \/ MutFold

\* a tracked pass that is drained by next() or folded at any point
SpecTrackedFold == TrackedMutInit /\ [][TrackedFoldNext]_vars

----------------------------------------------------------------------------
(* Archetype operations followed by a writing pass, each at a fresh epoch *)

EpochNext ==
    \/ ArchNext
    \/ \E t \in Types : IterNew(Leaf("write", t))
    \/ IterNextArchetype
    \/ IterYield
    \/ \E t \in Types, tracks \in TrackCutoffs : MutNew("mod_write", t, tracks)
    \/ MutNextArchetype
    \/ MutSkipChunk
    \/ MutSkipItem
    \/ MutYield

\* any sequence of archetype operations, then a QueryIter pass with &mut T
\* or a QueryTrackedIter pass with Modified<&mut T>
SpecEpochs == ArchInit /\ [][EpochNext]_vars

----------------------------------------------------------------------------
(* query/mod.rs: QueryTrackedIter over a tuple of Modified<&T> queries *)

\* Fetch for tuples: skip_chunk is the || of the elements' skip_chunk
tuple_skip_chunk(q, a, tracks, chunk) ==
    \E k \in 1..Len(q.elems) : skip_chunk(a.components[q.elems[k].t], tracks, chunk)

\* Fetch for tuples: skip_item is the || of the elements' skip_item
tuple_skip_item(q, a, tracks, idx) ==
    \E k \in 1..Len(q.elems) : skip_item(a.components[q.elems[k].t], tracks, idx)

\* Query for tuples: fetch of Modified<&T> elements is Some when every
\* element finds its column; it writes nothing
tuple_fetch_read(q, a) == \A k \in 1..Len(q.elems) : fetch(a, q.elems[k].t).some

\* the tuples of tracking queries a pass is made for
TrackedPairs ==
    {Tuple(<<Leaf("mod_read", t), Leaf("mod_read", u)>>) : t, u \in Types} \
        {Tuple(<<Leaf("mod_read", t), Leaf("mod_read", t)>>) : t \in Types}

PairFetchable(from) ==
    {a \in ArchIds : a >= from /\ tuple_fetch_read(it.q, archetypes[a])}

PairWalking == it.kind = "tracked_pair" /\ ~it.done

\* QueryTrackedIter::new(tracks, epoch, archetypes, ())
PairNew(q, tracks) ==
    /\ Running
    /\ it' = [NoIter EXCEPT !.kind = "tracked_pair", !.q = q, !.tracks = tracks,
                            !.step = "new"]
    /\ UNCHANGED <<archVars, bundleVars, queryVars, matchVars>>

\* next(), indices exhausted: move to the next archetype, or return None
PairNextArchetype ==
    /\ PairWalking
    /\ ~indices_next(it.indices).item.some
    /\ IF PairFetchable(it.archetypes) = {}
       THEN it' = [it EXCEPT !.archetypes = Len(ArchSets) + 1, !.done = TRUE,
                             !.step = "end"]
       ELSE LET a == CHOOSE x \in PairFetchable(it.archetypes) :
                        \A y \in PairFetchable(it.archetypes) : x <= y
            IN  it' = [it EXCEPT !.archetypes = a + 1,
                                 !.cur = a,
                                 !.indices = [start |-> 0, end |-> ArchLen(archetypes[a])],
                                 !.step = "archetype"]
    /\ UNCHANGED <<archVars, bundleVars, queryVars, matchVars>>

\* next(), Some(idx) at the first row of a chunk an element asks to skip
PairSkipChunk ==
    /\ PairWalking
    /\ LET n == indices_next(it.indices)
           idx == n.item.v
       IN  /\ n.item.some
           /\ first_of_chunk(idx).some
           /\ tuple_skip_chunk(it.q, archetypes[it.cur], it.tracks, first_of_chunk(idx).v)
           /\ it' = [it EXCEPT !.indices = indices_nth(n.range, CHUNK_LEN_USIZE - 1).range,
                               !.step = "skip_chunk"]
    /\ UNCHANGED <<archVars, bundleVars, queryVars, matchVars>>

\* next(), Some(idx), chunk not skipped, an element asks to skip the row
PairSkipItem ==
    /\ PairWalking
    /\ LET n == indices_next(it.indices)
           idx == n.item.v
           a == archetypes[it.cur]
       IN  /\ n.item.some
           /\ first_of_chunk(idx).some =>
                ~tuple_skip_chunk(it.q, a, it.tracks, first_of_chunk(idx).v)
           /\ tuple_skip_item(it.q, a, it.tracks, idx)
           /\ it' = [it EXCEPT !.indices = n.range,
                               !.visit_chunk = IF first_of_chunk(idx).some
                                               THEN mutates ELSE @,
                               !.step = "skip_item"]
    /\ UNCHANGED <<archVars, bundleVars, queryVars, matchVars>>

\* next(), Some(idx), nothing skipped: return Some((entity, item))
PairYield ==
    /\ PairWalking
    /\ LET n == indices_next(it.indices)
           idx == n.item.v
           a == archetypes[it.cur]
       IN  /\ n.item.some
           /\ first_of_chunk(idx).some =>
                ~tuple_skip_chunk(it.q, a, it.tracks, first_of_chunk(idx).v)
           /\ ~tuple_skip_item(it.q, a, it.tracks, idx)
           /\ it' = [it EXCEPT !.indices = n.range,
                               !.visit_chunk = FALSE,
                               !.yielded = Append(@, <<it.cur, a.entities[idx + 1], idx>>),
                               !.step = "yield"]
    /\ UNCHANGED <<archVars, bundleVars, queryVars, matchVars>>

TrackedPairNext ==
    \/ ArchNext
    \/ \E q \in TrackedPairs, tracks \in TrackCutoffs : PairNew(q, tracks)
    \/ PairNextArchetype
    \/ PairSkipChunk
    \/ PairSkipItem
    \/ PairYield

\* a tracked pass with (Modified<&A>, Modified<&B>) over archetypes left by
\* any sequence of operations
SpecTrackedPair == ArchInit /\ [][TrackedPairNext]_vars

----------------------------------------------------------------------------
(* Properties of tracked iteration *)

RECURSIVE ModifiedRows(_, _, _, _)
\* the rows i >= from of archetype a, ascending, whose entity_version in the
\* column of t is above tracks, as (archetype, entity, row)
ModifiedRows(a, t, tracks, from) ==
    IF from >= ArchLen(archetypes[a]) THEN << >>
    ELSE (IF Col(a, t).entity_versions[from] > tracks
          THEN << <<a, archetypes[a].entities[from + 1], from>> >>
          ELSE << >>) \o ModifiedRows(a, t, tracks, from + 1)

RECURSIVE ModifiedFrom(_, _, _)
\* the same over the archetypes a, a + 1, ... that have a column of t
ModifiedFrom(a, t, tracks) ==
    IF a > Len(ArchSets) THEN << >>
    ELSE (IF t \in ArchSets[a] THEN ModifiedRows(a, t, tracks, 0) ELSE << >>)
            \o ModifiedFrom(a + 1, t, tracks)

\* C2: a complete QueryTrackedIter pass with Modified<&T> and cutoff tracks
\* yields exactly the (entity, row) pairs of every archetype with a column
\* of T whose entity_version is above tracks, each once, in ascending row
\* order within an archetype.
C2_YieldsExactlyModified ==
    (it.kind = "tracked" /\ it.done) => it.yielded = ModifiedFrom(1, it.t, it.tracks)

----------------------------------------------------------------------------
(* Properties of Bundle::static_valid *)

----------------------------------------------------------------------------
(* Properties of the static query checks *)

ReadWriteLeaves == {Leaf(k, t) : k \in {"read", "write"}, t \in Types}
IsReadWriteTuple(q) ==
    ~IsLeaf(q) /\ \A k \in DOMAIN q.elems : q.elems[k] \in ReadWriteLeaves

\* C9: for a tuple query of &T / &mut T elements, is_valid() is true if and
\* only if every pair of distinct element positions satisfies allowed_with;
\* (&mut T, &T) is invalid, (&T, &T) is valid and (&mut T, &mut U) with
\* T # U is valid, whatever the order of the elements and the arity.
C9_ValidIffPairwiseAllowed ==
    (q_valid # "unset" /\ IsReadWriteTuple(qa)) =>
        /\ q_valid = "true" <=>
              \A i, j \in DOMAIN qa.elems :
                  i # j => allowed_with(qa.elems[i], qa.elems[j])
        /\ \A t \in Types :
              /\ qa = Tuple(<<Leaf("write", t), Leaf("read", t)>>) => q_valid = "false"
              /\ qa = Tuple(<<Leaf("read", t), Leaf("write", t)>>) => q_valid = "false"
              /\ qa = Tuple(<<Leaf("read", t), Leaf("read", t)>>) => q_valid = "true"
        /\ \A t, u \in Types :
              (t # u /\ qa = Tuple(<<Leaf("write", t), Leaf("write", u)>>))
                  => q_valid = "true"

\* is_valid rejected a tuple of three whose only conflict is between its
\* first and its last element
C9_Witness ==
    /\ q_valid = "false"
    /\ IsReadWriteTuple(qa)
    /\ Len(qa.elems) = 3
    /\ allowed_with(qa.elems[1], qa.elems[2])
    /\ allowed_with(qa.elems[2], qa.elems[3])
    /\ ~allowed_with(qa.elems[1], qa.elems[3])

Compatible(a, b) == a = "None" \/ b = "None" \/ (a = "Shared" /\ b = "Shared")

\* C10: for queries A and B built from &T, &mut T, Modified<&T>,
\* Modified<&mut T> and tuples of them, A::allowed_with::<B>() is true if and
\* only if for every component type X the accesses A::access(X) and
\* B::access(X) are compatible (None with anything, Shared with None and
\* Shared, Mutable with None only).
C10_AllowedIffCompatible ==
    q_allowed # "unset" =>
        (q_allowed = "true" <=>
            \A X \in Types : Compatible(access(qa, X), access(qb, X)))

\* allowed_with rejected a pair of two-element tuples whose first elements
\* are allowed with the whole other tuple
C10_Witness ==
    /\ q_allowed = "false"
    /\ ~IsLeaf(qa) /\ Len(qa.elems) = 2
    /\ ~IsLeaf(qb) /\ Len(qb.elems) = 2
    /\ allowed_with(qa.elems[1], qb)
    /\ allowed_with(qb.elems[1], qa)
    /\ \E k \in LeafKinds \ {"read", "write"} : qa.elems[2].k = k

----------------------------------------------------------------------------
(* archetype.rs: Archetype::matches *)

MatchTypes == {"Pos", "Vel", "Tag"}

\* longest id sequence handed to matches
MaxIds == 3

\* the try_fold of matches: Some(number of ids) when every id is in the set,
\* None as soon as one is not
RECURSIVE count_contained(_, _, _)
count_contained(set, ids, count) ==
    IF ids = << >> THEN Some(count)
    ELSE IF ids[1] \in set
         THEN count_contained(set, SubSeq(ids, 2, Len(ids)), count + 1)
         ELSE None

\* Archetype::matches(type_ids)
matches(set, ids, hint) ==
    IF ~hint.upper.some /\ hint.lower <= Cardinality(set)
    THEN count_contained(set, ids, 0) = Some(Cardinality(set))
    ELSE IF hint.upper.some /\ hint.lower <= Cardinality(set)
                            /\ hint.upper.v >= Cardinality(set)
         THEN count_contained(set, ids, 0) = Some(Cardinality(set))
         ELSE FALSE

\* the size hints an iterator that yields n items may give
SizeHints(n) ==
    {[lower |-> l, upper |-> u] :
        l \in 0..n, u \in {None} \cup {Some(k) : k \in n..(n + 1)}}

EvalMatches ==
    /\ m_ret = "unset"
    /\ m_ret' = BoolStr(matches(m_set, m_ids, m_hint))
    /\ UNCHANGED <<m_set, m_ids, m_hint, archVars, bundleVars, queryVars, it>>

MatchInit ==
    /\ m_set \in SUBSET MatchTypes
    /\ m_ids \in SeqsUpTo(MatchTypes, MaxIds)
    /\ m_hint \in SizeHints(Len(m_ids))
    /\ m_ret = "unset"
    /\ ArchIdle /\ BundleIdle /\ QueryIdle /\ IterIdle

MatchNext == EvalMatches

SpecMatches == MatchInit /\ [][MatchNext]_vars

\* C11: matches(ids) returns true if and only if the supplied ids, taken as
\* a collection, are exactly the archetype's component set; a sequence that
\* repeats an id while omitting another id of the set is not a match.
C11_MatchesIffExactSet ==
    m_ret # "unset" =>
        (m_ret = "true" <=>
            (Range(m_ids) = m_set /\ Len(m_ids) = Cardinality(m_set)))

----------------------------------------------------------------------------
(* Properties of single archetype operations *)

\* C12: spawn(entity, bundle, epoch) on an archetype of length n returns row
\* n, makes the length n + 1 with entities[n] = entity, stores the bundle's
\* components at row n, and sets column.version, chunk_versions[chunk_of(n)]
\* and entity_versions[n] to epoch on every column; the values and
\* entity_versions of rows 0..n-1 are unchanged.
C12_SpawnAppendsRow ==
    [][last'.op = "spawn" =>
        LET before == archetypes[last'.src]
            after == archetypes'[last'.src]
            n == ArchLen(before)
            ep == last'.epoch
        IN  /\ last'.dst_row = n
            /\ after.entities = Append(before.entities, FreshEntity)
            /\ \A t \in before.set :
                /\ after.components[t].ptr[n] = Value(FreshEntity, ep)
                /\ after.components[t].version = ep
                /\ after.components[t].chunk_versions[chunk_idx(n)] = ep
                /\ after.components[t].entity_versions[n] = ep
                /\ \A i \in 0..(n - 1) :
                    /\ after.components[t].ptr[i] = before.components[t].ptr[i]
                    /\ after.components[t].entity_versions[i]
                          = before.components[t].entity_versions[i]]_vars

\* a spawn into an archetype that had to grow, above two rows written at
\* different earlier epochs
C12_Witness ==
    /\ last.op = "spawn" /\ last.row = 2
    /\ archetypes[last.src].cap > 2
    /\ \E t \in ArchSets[last.src] :
        Col(last.src, t).entity_versions[0] < Col(last.src, t).entity_versions[1]

\* C13: set<T>(row, value, epoch) and set_bundle(row, bundle, epoch) make,
\* in every written column, the value at row the new value and
\* column.version, chunk_versions[chunk_of(row)] and entity_versions[row]
\* equal to epoch; every column not written is unchanged, the values and
\* entity_versions of all other rows are unchanged, and so are the entity
\* array and the length.
C13_SetWritesOnlyItsColumns ==
    [][last'.op \in {"set", "set_bundle"} =>
        LET before == archetypes[last'.src]
            after == archetypes'[last'.src]
            row == last'.row
            ep == last'.epoch
        IN  /\ after.entities = before.entities
            /\ after.cap = before.cap
            /\ \A a \in ArchIds \ {last'.src} : archetypes'[a] = archetypes[a]
            /\ \A t \in before.set :
                IF t \in last'.written
                THEN /\ after.components[t].ptr[row] = Value(before.entities[row + 1], ep)
                     /\ after.components[t].version = ep
                     /\ after.components[t].chunk_versions[chunk_idx(row)] = ep
                     /\ after.components[t].entity_versions[row] = ep
                     /\ \A i \in DOMAIN before.components[t].ptr \ {row} :
                         /\ after.components[t].ptr[i] = before.components[t].ptr[i]
                         /\ after.components[t].entity_versions[i]
                               = before.components[t].entity_versions[i]
                ELSE after.components[t] = before.components[t]]_vars

\* a set of Vel on the second row of an archetype that also holds Pos, whose
\* Pos column stays at an older version
C13_Witness ==
    /\ last.op = "set" /\ last.written = {"Vel"} /\ last.row = 1
    /\ Col(last.src, "Pos").version < last.epoch
    /\ Col(last.src, "Vel").entity_versions[0] < last.epoch

\* C14 as claimed: despawn(row) on an archetype of length n returns the row
\* index n - 1 the moved entity occupied before the call when row # n - 1,
\* and none when row = n - 1.
C14_ReturnsFormerRow ==
    [][last'.op = "despawn" =>
        LET n == ArchLen(archetypes[last'.src])
        IN  last'.moved = IF last'.row # n - 1 THEN Some(n - 1) ELSE None]_vars

\* C14 as amended: despawn(row) on an archetype of length n returns the idx
\* field of the id of the entity that was moved into `row` (the entity of
\* row n - 1 before the call) when row # n - 1, and none when row = n - 1.
C14_ReturnsMovedEntity ==
    [][last'.op = "despawn" =>
        LET before == archetypes[last'.src]
            n == ArchLen(before)
        IN  last'.moved = IF last'.row # n - 1
                          THEN Some(EntityIdx(before.entities[n]))
                          ELSE None]_vars

\* a despawn moved an entity whose id differs from the row it came from
C14_Witness ==
    /\ last.op = "despawn" /\ last.moved.some
    /\ last.moved.v # ArchLen(archetypes[last.src])
    /\ last.moved.v = EntityIdx(archetypes[last.src].entities[last.row + 1])

\* C15: despawn(row) with row < n - 1 on an archetype of length n leaves
\* length n - 1, and in every column row `row` holds the value, entity id and
\* entity_version row n - 1 held, chunk_versions[chunk_of(row)] is the maximum
\* of its previous value and the previous entity_versions[n - 1],
\* column.version is unchanged, and the rows other than `row` and n - 1 are
\* unchanged.
C15_DespawnMovesLastRow ==
    [][(last'.op = "despawn" /\ last'.row < ArchLen(archetypes[last'.src]) - 1) =>
        LET before == archetypes[last'.src]
            after == archetypes'[last'.src]
            n == ArchLen(before)
            row == last'.row
        IN  /\ ArchLen(after) = n - 1
            /\ after.entities[row + 1] = before.entities[n]
            /\ \A i \in 0..(n - 2) : i # row => after.entities[i + 1] = before.entities[i + 1]
            /\ \A t \in before.set :
                LET bc == before.components[t]
                    ac == after.components[t]
                IN  /\ ac.ptr[row] = bc.ptr[n - 1]
                    /\ ac.entity_versions[row] = bc.entity_versions[n - 1]
                    /\ ac.chunk_versions[chunk_idx(row)]
                          = Max(bc.chunk_versions[chunk_idx(row)], bc.entity_versions[n - 1])
                    /\ ac.version = bc.version
                    /\ \A i \in 0..(n - 2) : i # row =>
                        /\ ac.ptr[i] = bc.ptr[i]
                        /\ ac.entity_versions[i] = bc.entity_versions[i]]_vars

\* a despawn of row 0 moved the row of the second chunk into the first
\* chunk, beside a row it left alone
C15_Witness ==
    /\ last.op = "despawn" /\ last.row = 0 /\ last.moved.some
    /\ ArchLen(archetypes[last.src]) = 2
    /\ \E t \in ArchSets[last.src] :
        Col(last.src, t).entity_versions[0] > Col(last.src, t).entity_versions[1]

----------------------------------------------------------------------------
(* Round trips *)

\* C16 (R1): for an entity at row r of archetype A, insert<T>(dst = B, r, v,
\* epoch) followed by remove<T> from B back to A of the row it landed on
\* returns a value equal to v, and the entity's values and entity_versions in
\* every other column are the same as before the insert.
C16_InsertRemoveRoundTrip ==
    [][(last'.op = "remove" /\ last'.undoes) =>
        LET v == Value(archetypes[last.dst].entities[last.dst_row + 1], last.epoch)
            back == archetypes'[last.src]
        IN  /\ last'.value = v
            /\ back.entities[last'.dst_row + 1] = archetypes[last.dst].entities[last.dst_row + 1]
            /\ \A t \in DOMAIN last.image :
                /\ back.components[t].ptr[last'.dst_row] = last.image[t].value
                /\ back.components[t].entity_versions[last'.dst_row]
                      = last.image[t].version]_vars

\* a remove took back the insert before it, and the entity carries a column
\* that was written before that insert
C16_Witness ==
    /\ last.op = "remove" /\ last.undoes
    /\ last.value.stamp = epoch
    /\ \E t \in ArchSets[last.dst] :
        /\ Col(last.dst, t).entity_versions[last.dst_row] > 0
        /\ Col(last.dst, t).entity_versions[last.dst_row] < epoch

\* C17 (R3): migrating an entity from archetype A to a wider archetype B
\* with insert_bundle (bundle types disjoint from A's) and back to A with
\* drop_bundle leaves, for every column of A, the entity's value and
\* entity_version equal to what they were before the first migration, and
\* drops each bundle-added value exactly once.
C17_BundleRoundTrip ==
    [][(/\ last'.op = "drop_bundle" /\ last'.undoes
        /\ last.written \cap archetypes[last.src].set = {}) =>
        LET back == archetypes'[last.src]
        IN  /\ DOMAIN last.image = archetypes[last.src].set
            /\ \A t \in archetypes[last.src].set :
                /\ back.components[t].ptr[last'.dst_row] = last.image[t].value
                /\ back.components[t].entity_versions[last'.dst_row]
                      = last.image[t].version
            /\ \A t \in last.written :
                /\ dropped[<<t, last.epoch>>] = 0
                /\ dropped'[<<t, last.epoch>>] = 1
                /\ returned'[<<t, last.epoch>>] = 0]_vars

\* a drop_bundle took back the insert_bundle before it: the value the bundle
\* added is dropped, and the entity is back with a column written earlier
C17_Witness ==
    /\ last.op = "drop_bundle" /\ last.undoes
    /\ \E t \in Types \ ArchSets[last.dst] : dropped[<<t, epoch>>] = 1
    /\ \E t \in ArchSets[last.dst] :
        /\ Col(last.dst, t).entity_versions[last.dst_row] > 0
        /\ Col(last.dst, t).entity_versions[last.dst_row] < epoch

\* C18 (R2): on an empty archetype, spawn immediately followed by despawn of
\* the returned row returns the archetype to len = 0 with the capacity
\* reached by the spawn unchanged (despawn never reallocates), returns none as
\* moved row, and drops each spawned component value exactly once.
C18_SpawnDespawnRoundTrip ==
    [][(last'.op = "despawn" /\ last'.undoes /\ last.row = 0) =>
        LET before == archetypes[last.src]
            after == archetypes'[last.src]
        IN  /\ ArchLen(after) = 0
            /\ before.cap >= 1
            /\ after.cap = before.cap
            /\ \A t \in before.set :
                /\ DOMAIN after.components[t].ptr = DOMAIN before.components[t].ptr
                /\ DOMAIN after.components[t].entity_versions
                      = DOMAIN before.components[t].entity_versions
                /\ DOMAIN after.components[t].chunk_versions
                      = DOMAIN before.components[t].chunk_versions
            /\ last'.moved = None
            /\ last.written = before.set
            /\ \A t \in last.written :
                /\ dropped[<<t, last.epoch>>] = 0
                /\ dropped'[<<t, last.epoch>>] = 1
                /\ returned'[<<t, last.epoch>>] = 0]_vars

\* a despawn took back the spawn before it on an archetype of two columns
\* that was empty and is empty again, its allocation kept
C18_Witness ==
    /\ last.op = "despawn" /\ last.undoes /\ last.row = 0
    /\ ArchLen(archetypes[last.src]) = 0
    /\ archetypes[last.src].cap >= 1
    /\ \A t \in Types : t \in ArchSets[last.src] /\ dropped[<<t, epoch>>] = 1

----------------------------------------------------------------------------
(* Properties of QueryIter *)

\* ceil(n / CHUNK_LEN)
ChunksOf(n) == (n + CHUNK_LEN_USIZE - 1) \div CHUNK_LEN_USIZE

\* C19: a complete QueryIter pass with the query (&mut P, &V) at epoch e
\* (greater than every existing version) over an archetype with n >= 1 rows
\* containing both columns yields exactly n items, and afterwards
\* P.version = e, P.chunk_versions[c] = e for every chunk c < ceil(n /
\* CHUNK_LEN), P.entity_versions[i] = e for every i < n, while V's version,
\* chunk_versions and entity_versions are unchanged.
C19_WritePassStampsOnlyP ==
    \A P, V \in Types :
        (/\ P # V
         /\ it.kind = "iter" /\ it.done
         /\ it.q = Tuple(<<Leaf("write", P), Leaf("read", V)>>)
         /\ \A b \in ArchIds : \A t \in ArchSets[b] :
                it.before[b].components[t].version < it.epoch) =>
            \A a \in ArchIds :
                ({P, V} \subseteq archetypes[a].set /\ ArchLen(archetypes[a]) >= 1) =>
                    LET n == ArchLen(archetypes[a])
                        p == Col(a, P)
                        v == Col(a, V)
                        e == it.epoch
                    IN  /\ SelectSeq(it.yielded, LAMBDA y : y[1] = a)
                              = [i \in 1..n |-> <<a, archetypes[a].entities[i], i - 1>>]
                        /\ p.version = e
                        /\ \A c \in 0..(ChunksOf(n) - 1) : p.chunk_versions[c] = e
                        /\ \A i \in 0..(n - 1) : p.entity_versions[i] = e
                        /\ v.version = it.before[a].components[V].version
                        /\ v.chunk_versions = it.before[a].components[V].chunk_versions
                        /\ v.entity_versions = it.before[a].components[V].entity_versions

\* a pass with (&mut Pos, &Vel) has ended on an archetype of two chunks
\* whose Vel column carries stamps of two earlier epochs
C19_Witness ==
    /\ it.kind = "iter" /\ it.done
    /\ it.q = Tuple(<<Leaf("write", "Pos"), Leaf("read", "Vel")>>)
    /\ \E a \in ArchIds :
        /\ {"Pos", "Vel"} \subseteq archetypes[a].set
        /\ ArchLen(archetypes[a]) > CHUNK_LEN_USIZE
        /\ Len(it.yielded) = ArchLen(archetypes[a])
        /\ Col(a, "Vel").version > 0
        /\ Col(a, "Vel").version < it.epoch

RECURSIVE RequiredColumns(_)
\* the columns a query needs an archetype to have
RequiredColumns(q) ==
    IF IsLeaf(q) THEN {q.t}
    ELSE UNION {RequiredColumns(q.elems[i]) : i \in DOMAIN q.elems}

RECURSIVE SumLen(_)
SumLen(S) ==
    IF S = {} THEN 0
    ELSE LET a == CHOOSE x \in S : TRUE
         IN  ArchLen(archetypes[a]) + SumLen(S \ {a})

\* the sum of the lengths of the archetypes containing every column q requires
MatchingRows(q) ==
    SumLen({a \in ArchIds : RequiredColumns(q) \subseteq archetypes[a].set})

\* C20: at every point of a QueryIter pass over non-tracking queries (&T,
\* &mut T and tuples of them) with filter (), len() and both bounds of
\* size_hint() equal the exact number of items that the remaining calls to
\* next() will yield, which at the start is the sum of the lengths of the
\* archetypes containing every column the query requires.
C20_LenIsExact ==
    (it.kind = "iter" /\ failed = "none") =>
        LET remaining == MatchingRows(it.q) - Len(it.yielded)
        IN  /\ QueryIter_len = remaining
            /\ QueryIter_size_hint = [lower |-> remaining, upper |-> Some(remaining)]
            /\ it.done => remaining = 0

\* in the middle of a pass with a tuple query: items were yielded, items
\* remain, and an archetype with rows lacks a required column
C20_Witness ==
    /\ it.kind = "iter" /\ ~it.done
    /\ ~IsLeaf(it.q) /\ Len(it.q.elems) = 2
    /\ Len(it.yielded) >= 1
    /\ QueryIter_len >= 1
    /\ \E a \in ArchIds :
        /\ ArchLen(archetypes[a]) >= 1
        /\ ~(RequiredColumns(it.q) \subseteq archetypes[a].set)

----------------------------------------------------------------------------
(* Properties of tracked passes, continued *)

\* P1 on one column: every in-use row is dominated by its chunk, and every
\* chunk of in-use rows by the column
P1(a, t) ==
    \A i \in Rows(a) :
        /\ Col(a, t).entity_versions[i] <= Col(a, t).chunk_versions[chunk_idx(i)]
        /\ Col(a, t).chunk_versions[chunk_idx(i)] <= Col(a, t).version

\* the items of a pass that came from archetype a
YieldedFrom(a) == SelectSeq(it.yielded, LAMBDA y : y[1] = a)

\* every row of archetype a, in order, as (archetype, entity, row)
AllRows(a) ==
    [i \in 1..ArchLen(archetypes[a]) |-> <<a, archetypes[a].entities[i], i - 1>>]

\* C21: for an archetype with column T satisfying P1, a QueryTrackedIter pass
\* with Modified<&T> yields no row when tracks equals the column's current
\* version, and yields every row of the archetype when tracks is smaller
\* than every in-use entity_version.
C21_CutoffAtVersionOrBelowAll ==
    (it.kind = "tracked" /\ it.done) =>
        \A a \in ArchIds :
            (it.t \in archetypes[a].set /\ P1(a, it.t)) =>
                /\ it.tracks = Col(a, it.t).version => YieldedFrom(a) = << >>
                /\ (\A i \in Rows(a) : it.tracks < Col(a, it.t).entity_versions[i])
                        => YieldedFrom(a) = AllRows(a)

\* one pass has ended that met both cases: an archetype with rows whose
\* column version is the cutoff, and an archetype with two rows all
\* stamped after the cutoff
C21_Witness ==
    /\ it.kind = "tracked" /\ it.done
    /\ \E a, b \in ArchIds :
        /\ it.t \in archetypes[a].set /\ it.t \in archetypes[b].set
        /\ ArchLen(archetypes[a]) >= 1
        /\ it.tracks = Col(a, it.t).version
        /\ YieldedFrom(a) = << >>
        /\ ArchLen(archetypes[b]) >= 2
        /\ \A i \in Rows(b) : it.tracks < Col(b, it.t).entity_versions[i]
        /\ YieldedFrom(b) = AllRows(b)

----------------------------------------------------------------------------
(* Properties of growth *)

\* C22: capacity growth (reserve, including growth that crosses a chunk
\* boundary) performed with len in-use rows preserves, for every column, the
\* values and entity_versions of rows 0..len-1, every chunk_versions[c] of
\* chunks covering in-use rows, and column.version, and leaves
\* entity_versions of all new slots len..new_cap-1 equal to 0.
C22_GrowthPreservesRows ==
    [][(last'.op = "reserve" /\ archetypes'[last'.src].cap # archetypes[last'.src].cap) =>
        LET before == archetypes[last'.src]
            after == archetypes'[last'.src]
            len == ArchLen(before)
        IN  /\ after.cap > before.cap
            /\ after.entities = before.entities
            /\ \A t \in before.set :
                LET bc == before.components[t]
                    ac == after.components[t]
                IN  /\ DOMAIN ac.ptr = 0..(after.cap - 1)
                    /\ DOMAIN ac.entity_versions = 0..(after.cap - 1)
                    /\ \A i \in 0..(len - 1) :
                        /\ ac.ptr[i] = bc.ptr[i]
                        /\ ac.entity_versions[i] = bc.entity_versions[i]
                    /\ \A c \in 0..(((len + CHUNK_LEN_USIZE - 1) \div CHUNK_LEN_USIZE) - 1) :
                        ac.chunk_versions[c] = bc.chunk_versions[c]
                    /\ ac.version = bc.version
                    /\ \A i \in len..(after.cap - 1) : ac.entity_versions[i] = 0]_vars

\* a reserve grew an archetype whose rows reach into the second chunk past
\* the next chunk boundary, its stamps in place
C22_Witness ==
    /\ last.op = "reserve" /\ last.dst_row > last.row
    /\ archetypes[last.src].cap = last.dst_row
    /\ ArchLen(archetypes[last.src]) > CHUNK_LEN_USIZE
    /\ chunk_idx(last.dst_row - 1) > chunk_idx(last.row - 1)
    /\ \A t \in ArchSets[last.src] :
        /\ Col(last.src, t).chunk_versions[1] > 0
        /\ Col(last.src, t).entity_versions[0] > 0

----------------------------------------------------------------------------
(* Epoch ordering *)

\* C23: if the world gives each write-capable operation a fresh epoch larger
\* than all earlier ones, then after any operation that writes a column at
\* epoch e (spawn, set, set_bundle, the bundle deposit of insert /
\* insert_bundle, or a fetch by a mutating query) that column's version is
\* >= e, so a column touched by operation A at e1 and later by B at
\* e2 > e1 ends with version >= e2.
C23_WrittenColumnReachesEpoch ==
    [][/\ (epoch' > epoch /\ last'.epoch = epoch') =>
            \A t \in last'.written :
                archetypes'[last'.dst].components[t].version >= epoch'
       /\ (it'.kind = "iter" /\ it'.cur # 0 /\ it'.cur # it.cur) =>
            \A t \in WrittenTypes(it'.q) :
                archetypes'[it'.cur].components[t].version >= it'.epoch]_vars

\* a mutating query fetched, at a later epoch, a column that a set had
\* written after the spawn
C23_Witness ==
    /\ it.kind = "iter" /\ it.cur # 0
    /\ last.op = "set" /\ last.dst = it.cur
    /\ last.epoch > 1 /\ last.epoch < it.epoch
    /\ \E t \in WrittenTypes(it.q) \cap last.written :
        Col(it.cur, t).version = it.epoch

----------------------------------------------------------------------------
(* Properties of tracked passes with a mutating query *)

\* the stamps of every column of every archetype
Stamps(archs) ==
    [a \in ArchIds |->
        [t \in archs[a].set |->
            [entity_versions |-> archs[a].components[t].entity_versions,
             chunk_versions |-> archs[a].components[t].chunk_versions]]]

\* C24: during a tracked pass with Modified<Alt<T>>, yielding a row
\* (get_item, and the visit of its chunk) changes neither
\* entity_versions[row] nor chunk_versions[chunk]; as long as no handle has
\* been mutably dereferenced, all entity_versions and chunk_versions are the
\* same as before the pass.
C24_AltPassDefersStamps ==
    [][/\ (it'.kind = "tracked_mut" /\ it'.q.k = "mod_alt" /\ it' # it
           /\ it'.step = "yield") =>
            Stamps(archetypes') = Stamps(archetypes)
       /\ (it'.kind = "tracked_mut" /\ it'.q.k = "mod_alt" /\ it'.derefs = {}) =>
            Stamps(archetypes') = Stamps(it'.before)]_vars

\* a complete Modified<Alt<T>> pass that yielded rows of two chunks, visited
\* a chunk, and whose handles were never written through
C24_Witness ==
    /\ it.kind = "tracked_mut" /\ it.q.k = "mod_alt" /\ it.done
    /\ it.derefs = {}
    /\ Len(it.visits) >= 1
    /\ \E i, j \in 1..Len(it.yielded) :
        /\ it.yielded[i][1] = it.yielded[j][1]
        /\ chunk_idx(it.yielded[i][3]) # chunk_idx(it.yielded[j][3])
    /\ Stamps(archetypes) = Stamps(it.before)

\* C27: in QueryTrackedIter::next, when the row at a chunk boundary finds
\* skip_chunk(c) true, exactly CHUNK_LEN rows (those of chunk c) are passed
\* over: the next row examined is CHUNK_LEN * (c + 1) if that is below len
\* (a first row of a chunk, so it goes through the chunk-boundary check
\* again), and otherwise the archetype is exhausted.
C27_SkipPassesOneChunk ==
    [][(it'.kind = "tracked_mut" /\ it' # it /\ it'.step = "skip_chunk") =>
            LET c == chunk_idx(it.indices.start)
                nextrow == CHUNK_LEN_USIZE * (c + 1)
            IN  IF nextrow < it.indices.end
                THEN /\ it'.indices.start = nextrow
                     /\ first_of_chunk(it'.indices.start).some
                ELSE ~indices_next(it'.indices).item.some]_vars

\* the yielded items that came from chunk c of archetype a
YieldsOfChunk(a, c) ==
    {j \in 1..Len(it.yielded) :
        it.yielded[j][1] = a /\ chunk_idx(it.yielded[j][3]) = c}

\* the visit_chunk calls made for chunk c of archetype a
VisitsOfChunk(a, c) ==
    {v \in 1..Len(it.visits) : it.visits[v][1] = a /\ it.visits[v][2] = c}

\* C28: in a tracked pass with a mutating query, for every chunk c from which
\* at least one item has been yielded visit_chunk(c) was called exactly once
\* and before the first get_item on a row of chunk c; for a chunk from which
\* no item was yielded visit_chunk was never called.
C28_VisitChunkOncePerYieldedChunk ==
    it.kind = "tracked_mut" =>
        \A a \in ArchIds, c \in 0..NChunks(MaxRows) :
            IF YieldsOfChunk(a, c) = {}
            THEN VisitsOfChunk(a, c) = {}
            ELSE /\ Cardinality(VisitsOfChunk(a, c)) = 1
                 /\ \A v \in VisitsOfChunk(a, c) :
                        \A j \in YieldsOfChunk(a, c) : it.visits[v][3] < j

\* C29: starting from P1, at every point during and after a tracked pass
\* with Modified<&mut T> at an epoch e > tracks, every in-use row i of
\* column T satisfies entity_versions[i] <= chunk_versions[chunk_of(i)] <=
\* column.version.
C29_WritePassKeepsP1 ==
    (it.kind = "tracked_mut" /\ it.q.k = "mod_write" /\ it.tracks < it.epoch) =>
        \A a \in ArchIds : it.q.t \in archetypes[a].set => P1(a, it.q.t)

----------------------------------------------------------------------------
(* Despawn of the last row *)

\* C25: despawn of the only row of an archetype returns none and leaves
\* len = 0; despawn of the last row (idx = len - 1) returns none, copies no
\* component value and changes no entity_version and no chunk_version of
\* the remaining rows 0..len-2.
C25_DespawnLastRowTouchesNoOther ==
    [][(/\ last'.op = "despawn" /\ archetypes' # archetypes
        /\ last'.row = ArchLen(archetypes[last'.src]) - 1) =>
        LET before == archetypes[last'.src]
            after == archetypes'[last'.src]
            n == ArchLen(before)
        IN  /\ last'.moved = None
            /\ ArchLen(after) = n - 1
            /\ \A i \in 1..(n - 1) : after.entities[i] = before.entities[i]
            /\ \A t \in before.set :
                /\ \A i \in 0..(n - 2) :
                    /\ after.components[t].ptr[i] = before.components[t].ptr[i]
                    /\ after.components[t].entity_versions[i]
                          = before.components[t].entity_versions[i]
                    /\ after.components[t].chunk_versions[chunk_idx(i)]
                          = before.components[t].chunk_versions[chunk_idx(i)]
                /\ after.components[t].version = before.components[t].version]_vars

\* the last of two rows that share a chunk was despawned, in a column whose
\* version is above that chunk's version
C25_Witness ==
    /\ last.op = "despawn" /\ last.moved = None
    /\ last.row = 1
    /\ ArchLen(archetypes[last.src]) = 1
    /\ \E t \in archetypes[last.src].set :
        Col(last.src, t).chunk_versions[0] < Col(last.src, t).version

\* the only row of an archetype was despawned
C25_WitnessOnlyRow ==
    /\ last.op = "despawn" /\ last.moved = None
    /\ last.row = 0
    /\ ArchLen(archetypes[last.src]) = 0

----------------------------------------------------------------------------
(* Access of tuple queries *)

Accesses == {"None", "Shared", "Mutable"}

\* the strongest of a set of accesses
Strongest(S) ==
    IF "Mutable" \in S THEN "Mutable"
    ELSE IF "Shared" \in S THEN "Shared"
    ELSE "None"

\* C26: a tuple query's access(type) is the merge of its elements' accesses
\* for that type, where merge is commutative and associative with None as
\* identity, Shared + Shared = Shared and anything merged with Mutable is
\* Mutable; a tuple's allowed_with is the conjunction of its elements'
\* allowed_with.
C26_TupleAccessIsMerge ==
    /\ \A x, y, z \in Accesses :
        /\ merge_access(x, y) = merge_access(y, x)
        /\ merge_access(merge_access(x, y), z) = merge_access(x, merge_access(y, z))
        /\ merge_access("None", x) = x
        /\ merge_access(x, "Mutable") = "Mutable"
    /\ merge_access("Shared", "Shared") = "Shared"
    /\ ~IsLeaf(qa) =>
        \A ty \in Types :
            access(qa, ty) = Strongest({access(qa.elems[k], ty) : k \in 1..Len(qa.elems)})
    /\ (~IsLeaf(qa) /\ q_allowed # "unset") =>
        q_allowed = BoolStr(\A k \in 1..Len(qa.elems) :
                        IF IsLeaf(qa.elems[k])
                        THEN leaf_allowed_with(qa.elems[k], access(qb, qa.elems[k].t))
                        ELSE allowed_with(qa.elems[k], qb))

\* allowed_with was evaluated on a pair whose elements read and write the
\* same type, against a query the reading element tolerates and the writing
\* element does not
C26_Witness ==
    /\ ~IsLeaf(qa) /\ Len(qa.elems) = 2
    /\ \E ty \in Types :
        /\ access(qa.elems[1], ty) = "Shared"
        /\ access(qa.elems[2], ty) = "Mutable"
        /\ access(qa, ty) = "Mutable"
        /\ access(qb, ty) = "Shared"
    /\ allowed_with(qa.elems[1], qb)
    /\ ~allowed_with(qa.elems[2], qb)
    /\ q_allowed = "false"

----------------------------------------------------------------------------
(* Order of a QueryIter pass *)

\* s is an initial part of t
IsPrefix(s, t) == Len(s) <= Len(t) /\ \A i \in 1..Len(s) : s[i] = t[i]

\* the pass has fetched archetype a or, when it is over, could have
Fetched(a) ==
    /\ RequiredColumns(it.q) \subseteq archetypes[a].set
    /\ (it.done \/ a <= it.cur)

\* C30: QueryIter::next visits the archetypes in slice order; within each
\* fetched archetype it yields the rows 0..len-1 in ascending order, each
\* once, paired with entities[row]; for a mutating query visit_chunk(c) is
\* called exactly once for every chunk c < ceil(len / CHUNK_LEN),
\* immediately before the get_item of row CHUNK_LEN * c, and for a query
\* that does not mutate it is never called.
C30_IterYieldsRowsInOrder ==
    (it.kind = "iter" /\ it.cur # 0) =>
        /\ \A i \in 1..(Len(it.yielded) - 1) :
                it.yielded[i][1] <= it.yielded[i + 1][1]
        /\ \A a \in ArchIds :
            LET from == YieldedFrom(a)
                rows == AllRows(a)
            IN  IF ~Fetched(a) THEN from = << >>
                ELSE IF it.done \/ a < it.cur
                THEN /\ from = rows
                     /\ Query_mutates(it.q) =>
                        \A c \in 0..(ChunksOf(Len(rows)) - 1) :
                            Cardinality(VisitsOfChunk(a, c)) = 1
                ELSE IsPrefix(from, rows)
        /\ \A v \in 1..Len(it.visits) :
            /\ Query_mutates(it.q)
            /\ it.visits[v][3] < Len(it.yielded)
            /\ it.yielded[it.visits[v][3] + 1][1] = it.visits[v][1]
            /\ it.yielded[it.visits[v][3] + 1][3] = CHUNK_LEN_USIZE * it.visits[v][2]
        /\ Query_mutates(it.q) =>
            \A j \in 1..Len(it.yielded) :
                it.yielded[j][3] % CHUNK_LEN_USIZE = 0 =>
                    \E v \in 1..Len(it.visits) :
                        it.visits[v] = <<it.yielded[j][1], chunk_idx(it.yielded[j][3]), j - 1>>

\* a complete pass of a mutating query over an archetype that holds rows of
\* two chunks: every row yielded, each chunk visited
C30_Witness ==
    /\ it.kind = "iter" /\ it.done /\ Query_mutates(it.q)
    /\ \E a \in ArchIds :
        /\ Fetched(a)
        /\ ArchLen(archetypes[a]) > CHUNK_LEN_USIZE
        /\ YieldedFrom(a) = AllRows(a)
        /\ it.visits = <<<<a, 0, 0>>, <<a, 1, CHUNK_LEN_USIZE>>>>

\* a complete pass that yielded rows of the first archetype and then rows
\* of the second
C30_WitnessTwoArchetypes ==
    /\ it.kind = "iter" /\ it.done
    /\ \A a \in ArchIds : Fetched(a) /\ YieldedFrom(a) = AllRows(a)
    /\ Len(it.yielded) = MaxEntities
    /\ it.yielded[1][1] = 1 /\ it.yielded[MaxEntities][1] = 2

----------------------------------------------------------------------------
(* The alias check on nested tuples *)

\* C31: the alias check is recursive over tuple structure: a tuple query one
\* of whose elements is itself a tuple that is not valid (such as
\* ((&mut T, &T), &U)) has is_valid() = false.
C31_InvalidElementMakesInvalid ==
    (/\ q_valid # "unset"
     /\ ~IsLeaf(qa)
     /\ \E k \in 1..Len(qa.elems) : ~IsLeaf(qa.elems[k]) /\ ~is_valid(qa.elems[k])) =>
        q_valid = "false"

----------------------------------------------------------------------------
(* Migrations between archetypes *)

\* the rows, over all archetypes, that hold entity id e
Places(archs, e) ==
    {p \in ArchIds \X (1..MaxLen) :
        p[2] <= Len(archs[p[1]].entities) /\ archs[p[1]].entities[p[2]] = e}

\* C32: every migration (insert, insert_bundle, remove, drop_bundle) of
\* source row s from an archetype of length n to a destination of length m
\* leaves the source with length n - 1 and the destination with length
\* m + 1, places the migrated entity id at destination row m and returns m
\* as destination row, returns a moved-source hint that is present if and
\* only if s # n - 1, and keeps every live entity id in exactly one row of
\* exactly one archetype.
C32_MigrationMovesOneRow ==
    [][(last'.op \in Migrations /\ archetypes' # archetypes) =>
        LET src == archetypes[last'.src]
            dst == archetypes[last'.dst]
            n == ArchLen(src)
            m == ArchLen(dst)
        IN  /\ ArchLen(archetypes'[last'.src]) = n - 1
            /\ ArchLen(archetypes'[last'.dst]) = m + 1
            /\ archetypes'[last'.dst].entities[m + 1] = src.entities[last'.row + 1]
            /\ last'.dst_row = m
            /\ last'.moved.some <=> (last'.row # n - 1)
            /\ \A e \in EntityIds :
                Cardinality(Places(archetypes', e)) = Cardinality(Places(archetypes, e))
            /\ \A e \in EntityIds : Cardinality(Places(archetypes', e)) <= 1]_vars

\* a migration took a row that was not the last of its archetype into an
\* archetype that already held a row
C32_Witness ==
    /\ last.op \in Migrations
    /\ last.moved.some
    /\ last.dst_row >= 1
    /\ ArchLen(archetypes[last.src]) >= 1
    /\ Cardinality(LiveEntities) = MaxEntities

----------------------------------------------------------------------------
(* insert_bundle over a component the entity already has *)

\* C33: insert_bundle with a bundle that contains a component type already
\* present in the source archetype: in the destination row that column ends
\* holding the bundle's value (not the relocated one), the relocated old
\* value is dropped exactly once, and the column's entity_version,
\* chunk_version and version at the destination row are `epoch`.
C33_BundleReplacesHeldComponent ==
    [][(last'.op = "insert_bundle" /\ archetypes' # archetypes) =>
        \A t \in last'.written \cap archetypes[last'.src].set :
            LET old == archetypes[last'.src].components[t].ptr[last'.row]
                entity == archetypes[last'.src].entities[last'.row + 1]
                col == archetypes'[last'.dst].components[t]
            IN  /\ col.ptr[last'.dst_row] = Value(entity, last'.epoch)
                /\ col.ptr[last'.dst_row] # old
                /\ dropped'[Token(t, old)] = dropped[Token(t, old)] + 1
                /\ dropped'[Token(t, old)] = 1
                /\ returned'[Token(t, old)] = 0
                /\ col.entity_versions[last'.dst_row] = last'.epoch
                /\ col.chunk_versions[chunk_idx(last'.dst_row)] = last'.epoch
                /\ col.version = last'.epoch]_vars

\* an insert_bundle carried a component the entity already had, into a row
\* behind another row of the destination
C33_Witness ==
    /\ last.op = "insert_bundle"
    /\ last.written \cap archetypes[last.src].set # {}
    /\ last.dst_row >= 1
    /\ \E t \in last.written \cap archetypes[last.src].set :
        /\ last.image[t].value.stamp < last.epoch
        /\ dropped[Token(t, last.image[t].value)] = 1
        /\ Col(last.dst, t).ptr[last.dst_row].stamp = last.epoch

----------------------------------------------------------------------------
(* Archetypes a query declines *)

\* C34: declining an archetype has no side effect: whenever Q::fetch returns
\* None for an archetype (including a tuple such as (&mut A, &B) on an
\* archetype that has column A but lacks column B), no column version,
\* chunk_version or entity_version of that archetype is changed.
C34_DeclinedArchetypeUntouched ==
    [][(it.kind = "iter" /\ it'.kind = "iter" /\ it'.archetypes > it.archetypes) =>
        \A a \in it.archetypes..(it'.archetypes - 1) :
            (a \in ArchIds /\ a # it'.cur) =>
                \A t \in archetypes[a].set :
                    /\ archetypes'[a].components[t].version
                          = archetypes[a].components[t].version
                    /\ archetypes'[a].components[t].chunk_versions
                          = archetypes[a].components[t].chunk_versions
                    /\ archetypes'[a].components[t].entity_versions
                          = archetypes[a].components[t].entity_versions]_vars

----------------------------------------------------------------------------
(* Archetypes a tracked pass yields nothing from *)

\* version, chunk_versions and entity_versions of every column of archetype a
Versions(archs, a) ==
    [t \in archs[a].set |->
        [version |-> archs[a].components[t].version,
         chunk_versions |-> archs[a].components[t].chunk_versions,
         entity_versions |-> archs[a].components[t].entity_versions]]

\* C35: a QueryTrackedIter pass with Modified<&mut T> that yields no item
\* from an archetype (in particular an archetype whose column.version <
\* tracks, for which Modified<&mut T>::skip_archetype is true) leaves that
\* archetype's column.version, chunk_versions and entity_versions unchanged.
C35_UnyieldingArchetypeUntouched ==
    (it.kind = "tracked_mut" /\ it.q.k = "mod_write" /\ it.done) =>
        \A a \in ArchIds :
            YieldedFrom(a) = << >> => Versions(archetypes, a) = Versions(it.before, a)

----------------------------------------------------------------------------
(* fold against repeated next() *)

\* the iterator as QueryTrackedIter::new left it for the pass now under way
FreshIter ==
    [it EXCEPT !.archetypes = 1, !.cur = 0,
               !.indices = [start |-> 0, end |-> 0],
               !.visit_chunk = FALSE, !.yielded = << >>, !.visits = << >>,
               !.derefs = {}, !.done = FALSE, !.step = "new"]

\* C36: for the same archetypes, query, tracks and epoch,
\* QueryTrackedIter::fold visits exactly the same sequence of (entity, row)
\* items, and leaves the same column, chunk and entity versions, as draining
\* the iterator with repeated next(), for any number of archetypes and any
\* archetype lengths (including lengths above CHUNK_LEN with skipped chunks).
C36_FoldEqualsDrain ==
    (/\ it.kind = "tracked_mut" /\ it.done /\ it.step = "end"
     /\ it.derefs = {} /\ failed = "none") =>
        LET f == QueryTrackedIter_fold(FreshIter, it.before)
        IN  /\ f.yielded = it.yielded
            /\ \A a \in ArchIds : Versions(f.archs, a) = Versions(archetypes, a)

----------------------------------------------------------------------------
(* Symmetry of allowed_with *)

\* C37: allowed_with is symmetric: for all queries A and B built from &T,
\* &mut T, Modified<&T>, Modified<&mut T> and tuples of them,
\* A::allowed_with::<B>() = B::allowed_with::<A>().
C37_AllowedWithSymmetric ==
    q_allowed # "unset" => q_allowed = BoolStr(allowed_with(qb, qa))

\* allowed_with was evaluated, and found false, on a pair that reads one
\* type and writes another against a single query that writes the type the
\* pair reads
C37_Witness ==
    /\ q_allowed = "false"
    /\ ~IsLeaf(qa) /\ Len(qa.elems) = 2 /\ IsLeaf(qb)
    /\ \E t, u \in Types :
        /\ t # u
        /\ access(qa, t) = "Shared"
        /\ access(qa, u) = "Mutable"
        /\ access(qb, t) = "Mutable"
        /\ access(qb, u) = "None"

----------------------------------------------------------------------------
(* Versions never run ahead of the epochs handed out *)

\* the version assertions of write_bundle, write_one, the mutating fetches,
\* visit_chunk and get_item
VersionAsserts == {"write_bundle", "write_one", "fetch", "visit_chunk", "get_item"}

\* C38: if every archetype operation and every query pass is given an epoch
\* >= 1 strictly greater than all epochs used before, then in every
\* reachable state every column.version, chunk_version and entity_version
\* is <= the largest epoch used so far, and every version assertion in the
\* code holds when reached (those of write_bundle and write_one, of the
\* fetch of &mut T and Modified<&mut T>, of visit_chunk and of get_item).
C38_VersionsWithinEpochs ==
    /\ failed \notin VersionAsserts
    /\ \A p \in Columns :
        /\ Col(p[1], p[2]).version <= epoch
        /\ \A i \in DOMAIN Col(p[1], p[2]).chunk_versions :
            Col(p[1], p[2]).chunk_versions[i] <= epoch
        /\ \A i \in DOMAIN Col(p[1], p[2]).entity_versions :
            Col(p[1], p[2]).entity_versions[i] <= epoch

\* a debug build went through archetype operations and then a
\* Modified<&mut T> pass that visited a chunk and yielded from it, with no
\* assertion failing
C38_Witness ==
    /\ debug /\ failed = "none"
    /\ it.kind = "tracked_mut" /\ it.done
    /\ Len(it.visits) >= 1 /\ Len(it.yielded) >= 2
    /\ epoch = MaxEpoch + 1
    /\ \E a \in ArchIds :
        /\ it.q.t \in archetypes[a].set
        /\ Col(a, it.q.t).version = epoch
        /\ Col(a, it.q.t).chunk_versions[0] = epoch

----------------------------------------------------------------------------
(* Tracked passes with a tuple of tracking queries *)

\* the rows of archetype a, from row i on, whose entity_version is above
\* tracks in the column of every element of q
RECURSIVE PairModifiedRows(_, _, _, _)
PairModifiedRows(a, q, tracks, i) ==
    IF i >= ArchLen(archetypes[a]) THEN << >>
    ELSE (IF \A k \in 1..Len(q.elems) : Col(a, q.elems[k].t).entity_versions[i] > tracks
          THEN << <<a, archetypes[a].entities[i + 1], i>> >>
          ELSE << >>) \o PairModifiedRows(a, q, tracks, i + 1)

RECURSIVE PairModifiedFrom(_, _, _)
PairModifiedFrom(a, q, tracks) ==
    IF a > Len(ArchSets) THEN << >>
    ELSE (IF \A k \in 1..Len(q.elems) : q.elems[k].t \in ArchSets[a]
          THEN PairModifiedRows(a, q, tracks, 0) ELSE << >>)
            \o PairModifiedFrom(a + 1, q, tracks)

\* C39: a QueryTrackedIter pass with the tuple (Modified<&A>, Modified<&B>)
\* yields exactly the rows i of archetypes containing both columns for which
\* both A.entity_versions[i] > tracks and B.entity_versions[i] > tracks.
C39_PairYieldsRowsModifiedInBoth ==
    (it.kind = "tracked_pair" /\ it.done) =>
        it.yielded = PairModifiedFrom(1, it.q, it.tracks)

----------------------------------------------------------------------------
(* Chunk counts during growth *)

\* C40: chunks_count(n) equals ceil(n / CHUNK_LEN) for every capacity n an
\* archetype takes, and growth gives a column a new chunk_versions array
\* only when ceil(new_cap / CHUNK_LEN) > ceil(old_cap / CHUNK_LEN).
C40_ChunksCountIsCeiling ==
    [][\A a \in ArchIds :
        LET old_cap == archetypes[a].cap
            new_cap == archetypes'[a].cap
        IN  /\ chunks_count(new_cap) = ChunksOf(new_cap)
            /\ \A t \in ArchSets[a] :
                DOMAIN archetypes'[a].components[t].chunk_versions
                        # DOMAIN archetypes[a].components[t].chunk_versions
                    => ChunksOf(new_cap) > ChunksOf(old_cap)]_vars

====
